---- MODULE Spec2Model ----
(***************************************************************************)
(* State-machine model of claude_commit (main package).                    *)
(*                                                                         *)
(* A Go string is modelled as a sequence of pieces: API keys, diffs and    *)
(* response texts are sequences of one-character strings (they are cut,    *)
(* measured and trimmed by the code); fixed literals and model identifiers *)
(* are single pieces (the code only concatenates and compares them).       *)
(* The persistent state is the configuration file; everything else is the  *)
(* record of the last invocation: its arguments, what the collaborators    *)
(* (file system, git, HTTP) answered, the ordered events it caused and its *)
(* exit status.  running holds the config invocations that are under way   *)
(* when two of them overlap; it is idle in the runs of one invocation at   *)
(* a time.                                                                 *)
(***************************************************************************)
EXTENDS Integers, Sequences, FiniteSets

VARIABLES file, last, running

vars == <<file, last, running>>

(***************************************************************************)
(* Strings                                                                 *)
(***************************************************************************)
Empty == <<>>

\* ANSI codes used by the code under model
Reset == "ESC[0m"
Bold == "ESC[1m"
Dim == "ESC[2m"
Green == "ESC[32m"
Cyan == "ESC[36m"
Magenta == "ESC[35m"

ANSICodes == {Reset, Bold, Dim, Green, Cyan, Magenta}

\* unicode.IsSpace on the characters that occur in the model
WhiteSpace == {" ", "\t", "\n", "\r", "\f"}

RECURSIVE TrimLeft(_)
TrimLeft(s) ==
    IF s = Empty THEN Empty
    ELSE IF Head(s) \in WhiteSpace THEN TrimLeft(Tail(s))
    ELSE s

RECURSIVE TrimRight(_)
TrimRight(s) ==
    IF s = Empty THEN Empty
    ELSE IF s[Len(s)] \in WhiteSpace THEN TrimRight(SubSeq(s, 1, Len(s) - 1))
    ELSE s

\* strings.TrimSpace
TrimSpace(s) == TrimRight(TrimLeft(s))

\* strings.Contains for a literal piece
ContainsPiece(s, p) == \E i \in 1..Len(s) : s[i] = p

Range(s) == {s[i] : i \in 1..Len(s)}

(***************************************************************************)
(* Domain constants                                                        *)
(***************************************************************************)
AvailableModels ==
    << <<"claude-opus-4-0">>, <<"claude-sonnet-4-0">>,
       <<"claude-3-7-sonnet-latest">>, <<"claude-3-5-sonnet-latest">>,
       <<"claude-3-5-haiku-latest">>, <<"claude-3-opus-latest">> >>

DefaultModel == <<"claude-3-7-sonnet-latest">>

MaxTokens == 100

StatusOK == 200

MaskLimit == 8

MaskKeep == 4

\* Config{ApiKey, Model}
Config(k, m) == [ApiKey |-> k, Model |-> m]

ZeroConfig == Config(Empty, Empty)

(***************************************************************************)
(* Errors: the value built by one fmt.Errorf site (site names the call,    *)
(* msg is the formatted text).  NoError is Go's nil error.                 *)
(***************************************************************************)
\* the text of a wrapped collaborator error (%w, %v)
Cause == "<cause>"

NoError == [site |-> "nil", msg |-> Empty]

Errorf(site, msg) == [site |-> site, msg |-> msg]

(***************************************************************************)
(* Utility functions                                                       *)
(***************************************************************************)
MaskAPIKeyNoLimit(apiKey) ==
    IF Len(apiKey) <= 2 * MaskKeep THEN apiKey
    ELSE SubSeq(apiKey, 1, MaskKeep) \o <<"*", "*", "*", "*">>
         \o SubSeq(apiKey, Len(apiKey) - MaskKeep + 1, Len(apiKey))

MaskAPIKeyOffByOne(apiKey) ==
    IF Len(apiKey) < MaskLimit
    THEN <<"*", "*", "*", "*", "*", "*", "*", "*">>
    ELSE SubSeq(apiKey, 1, MaskKeep) \o <<"*", "*", "*", "*">>
         \o SubSeq(apiKey, Len(apiKey) - MaskKeep + 1, Len(apiKey))

MaskAPIKey(apiKey) ==
    IF Len(apiKey) <= MaskLimit
    THEN <<"*", "*", "*", "*", "*", "*", "*", "*">>
    ELSE SubSeq(apiKey, 1, MaskKeep) \o <<"*", "*", "*", "*">>
         \o SubSeq(apiKey, Len(apiKey) - MaskKeep + 1, Len(apiKey))

(***************************************************************************)
(* Events of one invocation, in program order                              *)
(***************************************************************************)
EvHome == [ev |-> "UserHomeDir"]
EvRead == [ev |-> "ReadFile"]
EvMkdir == [ev |-> "MkdirAll"]
EvWrite(cfg) == [ev |-> "WriteFile", cfg |-> cfg]
EvGit(q) == [ev |-> "git", query |-> q]
EvHTTP(req) == [ev |-> "http", req |-> req]
EvClose == [ev |-> "Body.Close"]
EvExit(code) == [ev |-> "os.Exit", code |-> code]

\* Printer methods
PrintPlain(msg) == [ev |-> "print", kind |-> "Print", msg |-> msg]
PrintSuccess(msg) == [ev |-> "print", kind |-> "PrintSuccess", msg |-> msg]
PrintError(msg) == [ev |-> "print", kind |-> "PrintError", msg |-> msg]

(***************************************************************************)
(* The configuration file.  Its content is absent, not valid JSON          *)
(* ("malformed": garbage, or what a write that failed after truncating     *)
(* the file left behind), or a JSON object given by its fields.            *)
(***************************************************************************)
NoFile == [kind |-> "absent", has |-> {}, api_key |-> Empty, model |-> Empty]

Malformed == [kind |-> "malformed", has |-> {}, api_key |-> Empty, model |-> Empty]

\* a JSON object: has is the set of the fields present in it
JSON(has, k, m) ==
    [kind |-> "json", has |-> has,
     api_key |-> IF "api_key" \in has THEN k ELSE Empty,
     model |-> IF "model" \in has THEN m ELSE Empty]

\* json.MarshalIndent(config): both fields are always written
MarshalIndent(cfg) == JSON({"api_key", "model"}, cfg.ApiKey, cfg.Model)

\* json.Unmarshal(data, &config): absent fields keep the zero value,
\* unknown fields are ignored
Unmarshal(f) ==
    Config(IF "api_key" \in f.has THEN f.api_key ELSE Empty,
           IF "model" \in f.has THEN f.model ELSE Empty)

(***************************************************************************)
(* What the file system answers during one invocation.  home1/read serve   *)
(* LoadConfig, home2/mkdir/write serve the rest of SaveConfig.  A failing  *)
(* os.WriteFile either never opened the file ("denied": content kept) or   *)
(* failed after opening it with O_TRUNC ("truncated": content lost).       *)
(***************************************************************************)
WriteOutcomes == {"ok", "denied", "truncated"}

FSEnvs ==
    [homeErr1 : BOOLEAN, readErr : BOOLEAN, homeErr2 : BOOLEAN,
     mkdirErr : BOOLEAN, write : WriteOutcomes]

FSQuiet ==
    [homeErr1 |-> FALSE, readErr |-> FALSE, homeErr2 |-> FALSE,
     mkdirErr |-> FALSE, write |-> "ok"]

\* RealFileSystem.WriteFile
WriteFile(f, data, outcome) ==
    CASE outcome = "ok" -> data
      [] outcome = "truncated" -> Malformed
      [] OTHER -> f

\* RealFileSystem.ReadFile: fails when the file is absent or unreadable
ReadFileFails(f, fs) == f.kind = "absent" \/ fs.readErr

(***************************************************************************)
(* ConfigService                                                           *)
(***************************************************************************)
RunConfigFirst == "\nPlease run 'config' first"

LoadConfigNoParseCheck(f, fs) ==
    IF fs.homeErr1
    THEN [ok |-> FALSE, cfg |-> ZeroConfig,
          err |-> Errorf("LoadConfig.home", <<"error getting home directory: ", Cause>>),
          events |-> <<EvHome>>]
    ELSE IF ReadFileFails(f, fs)
    THEN [ok |-> FALSE, cfg |-> ZeroConfig,
          err |-> Errorf("LoadConfig.read",
                         <<"error reading config file: ", Cause, RunConfigFirst>>),
          events |-> <<EvHome, EvRead>>]
    ELSE [ok |-> TRUE, cfg |-> Unmarshal(f), err |-> NoError,
          events |-> <<EvHome, EvRead>>]

LoadConfig(f, fs) ==
    IF fs.homeErr1
    THEN [ok |-> FALSE, cfg |-> ZeroConfig,
          err |-> Errorf("LoadConfig.home", <<"error getting home directory: ", Cause>>),
          events |-> <<EvHome>>]
    ELSE IF ReadFileFails(f, fs)
    THEN [ok |-> FALSE, cfg |-> ZeroConfig,
          err |-> Errorf("LoadConfig.read",
                         <<"error reading config file: ", Cause, RunConfigFirst>>),
          events |-> <<EvHome, EvRead>>]
    ELSE IF f.kind # "json"
    THEN [ok |-> FALSE, cfg |-> ZeroConfig,
          err |-> Errorf("LoadConfig.parse", <<"error parsing config file: ", Cause>>),
          events |-> <<EvHome, EvRead>>]
    ELSE [ok |-> TRUE, cfg |-> Unmarshal(f), err |-> NoError,
          events |-> <<EvHome, EvRead>>]

\* SaveConfig, lines 170-189: the record that will be validated and written
MergeKeepsNothing(existing, apiKey, model) ==
    Config(apiKey, IF model # Empty THEN model ELSE DefaultModel)

MergeConfig(existing, apiKey, model) ==
    LET start == IF existing.ok THEN existing.cfg ELSE Config(Empty, DefaultModel)
    IN  Config(IF apiKey # Empty THEN apiKey ELSE start.ApiKey,
               IF model # Empty THEN model ELSE start.Model)

SavedMessages(config) ==
    << PrintSuccess(<<"Configuration saved successfully">>),
       PrintPlain(<<Bold, "API Key: ", Reset>> \o MaskAPIKey(config.ApiKey)),
       PrintPlain(<<Bold, "Model: ", Reset>> \o config.Model) >>

SaveConfigNoValidation(f, apiKey, model, fs) ==
    LET existing == LoadConfig(f, fs)
        config == MergeConfig(existing, apiKey, model)
    IN  [err |-> NoError, file |-> MarshalIndent(config),
         events |-> existing.events \o <<EvHome, EvMkdir, EvWrite(config)>>
                    \o SavedMessages(config)]

SaveConfigValidatesArgument(f, apiKey, model, fs) ==
    LET existing == LoadConfig(f, fs)
        config == MergeConfig(existing, apiKey, model)
    IN  IF apiKey = Empty
        THEN [err |-> Errorf("SaveConfig.validate",
                             <<"API key is required. Use -api-key flag to set it">>),
              file |-> f, events |-> existing.events]
        ELSE IF fs.homeErr2 \/ fs.mkdirErr \/ fs.write # "ok"
        THEN [err |-> Errorf("SaveConfig.write", <<"error writing config file: ", Cause>>),
              file |-> f, events |-> existing.events \o <<EvHome>>]
        ELSE [err |-> NoError, file |-> MarshalIndent(config),
              events |-> existing.events \o <<EvHome, EvMkdir, EvWrite(config)>>
                         \o SavedMessages(config)]

SaveConfigPropagatesLoad(f, apiKey, model, fs) ==
    LET existing == LoadConfig(f, fs)
        config == MergeConfig(existing, apiKey, model)
    IN  IF ~existing.ok /\ f.kind # "absent"
        THEN [err |-> existing.err, file |-> f, events |-> existing.events]
        ELSE IF config.ApiKey = Empty
        THEN [err |-> Errorf("SaveConfig.validate",
                             <<"API key is required. Use -api-key flag to set it">>),
              file |-> f, events |-> existing.events]
        ELSE IF fs.homeErr2 \/ fs.mkdirErr \/ fs.write # "ok"
        THEN [err |-> Errorf("SaveConfig.write", <<"error writing config file: ", Cause>>),
              file |-> f, events |-> existing.events \o <<EvHome>>]
        ELSE [err |-> NoError, file |-> MarshalIndent(config),
              events |-> existing.events \o <<EvHome, EvMkdir, EvWrite(config)>>
                         \o SavedMessages(config)]

SaveConfig(f, apiKey, model, fs) ==
    LET existing == LoadConfig(f, fs)
        config == MergeConfig(existing, apiKey, model)
    IN  IF config.ApiKey = Empty
        THEN [err |-> Errorf("SaveConfig.validate",
                             <<"API key is required. Use -api-key flag to set it">>),
              file |-> f, events |-> existing.events]
        ELSE IF fs.homeErr2
        THEN [err |-> Errorf("SaveConfig.home", <<"error getting home directory: ", Cause>>),
              file |-> f, events |-> existing.events \o <<EvHome>>]
        ELSE IF fs.mkdirErr
        THEN [err |-> Errorf("SaveConfig.mkdir", <<"error creating config directory: ", Cause>>),
              file |-> f, events |-> existing.events \o <<EvHome, EvMkdir>>]
        ELSE IF fs.write # "ok"
        THEN [err |-> Errorf("SaveConfig.write", <<"error writing config file: ", Cause>>),
              file |-> WriteFile(f, MarshalIndent(config), fs.write),
              events |-> existing.events \o <<EvHome, EvMkdir, EvWrite(config)>>]
        ELSE [err |-> NoError,
              file |-> WriteFile(f, MarshalIndent(config), fs.write),
              events |-> existing.events \o <<EvHome, EvMkdir, EvWrite(config)>>
                         \o SavedMessages(config)]

SaveAfterReload(f, existing, apiKey, model, fs) ==
    LET config == MergeConfig(LoadConfig(f, fs), apiKey, model)
    IN  IF config.ApiKey = Empty
        THEN [err |-> Errorf("SaveConfig.validate",
                             <<"API key is required. Use -api-key flag to set it">>),
              file |-> f, events |-> existing.events]
        ELSE IF fs.homeErr2 \/ fs.mkdirErr \/ fs.write # "ok"
        THEN [err |-> Errorf("SaveConfig.write", <<"error writing config file: ", Cause>>),
              file |-> f, events |-> existing.events \o <<EvHome>>]
        ELSE [err |-> NoError, file |-> MarshalIndent(config),
              events |-> existing.events \o <<EvHome, EvMkdir, EvWrite(config)>>
                         \o SavedMessages(config)]

\* SaveConfig from line 172 on, for a LoadConfig result obtained earlier: f
\* is the file at the time of the write
SaveAfterLoad(f, existing, apiKey, model, fs) ==
    LET config == MergeConfig(existing, apiKey, model)
    IN  IF config.ApiKey = Empty
        THEN [err |-> Errorf("SaveConfig.validate",
                             <<"API key is required. Use -api-key flag to set it">>),
              file |-> f, events |-> existing.events]
        ELSE IF fs.homeErr2
        THEN [err |-> Errorf("SaveConfig.home", <<"error getting home directory: ", Cause>>),
              file |-> f, events |-> existing.events \o <<EvHome>>]
        ELSE IF fs.mkdirErr
        THEN [err |-> Errorf("SaveConfig.mkdir", <<"error creating config directory: ", Cause>>),
              file |-> f, events |-> existing.events \o <<EvHome, EvMkdir>>]
        ELSE IF fs.write # "ok"
        THEN [err |-> Errorf("SaveConfig.write", <<"error writing config file: ", Cause>>),
              file |-> WriteFile(f, MarshalIndent(config), fs.write),
              events |-> existing.events \o <<EvHome, EvMkdir, EvWrite(config)>>]
        ELSE [err |-> NoError,
              file |-> WriteFile(f, MarshalIndent(config), fs.write),
              events |-> existing.events \o <<EvHome, EvMkdir, EvWrite(config)>>
                         \o SavedMessages(config)]

ViewConfigUnmasked(f, fs) ==
    LET loaded == LoadConfig(f, fs)
    IN  IF ~loaded.ok
        THEN [err |-> loaded.err, events |-> loaded.events]
        ELSE [err |-> NoError,
              events |-> loaded.events \o
                  << PrintPlain(<<Bold, Cyan, "Current Configuration:", Reset>>),
                     PrintPlain(<<Bold, "API Key: ", Reset>> \o loaded.cfg.ApiKey),
                     PrintPlain(<<Bold, "Model: ", Reset>> \o loaded.cfg.Model) >>]

ViewConfig(f, fs) ==
    LET loaded == LoadConfig(f, fs)
    IN  IF ~loaded.ok
        THEN [err |-> loaded.err, events |-> loaded.events]
        ELSE [err |-> NoError,
              events |-> loaded.events \o
                  << PrintPlain(<<Bold, Cyan, "Current Configuration:", Reset>>),
                     PrintPlain(<<Bold, "API Key: ", Reset>> \o MaskAPIKey(loaded.cfg.ApiKey)),
                     PrintPlain(<<Bold, "Model: ", Reset>> \o loaded.cfg.Model) >>]

(***************************************************************************)
(* ModelService                                                            *)
(***************************************************************************)
ModelLineDefaultFirst(model, current) ==
    IF model = DefaultModel THEN PrintPlain(<<Bold>> \o model \o <<" [DEFAULT]", Reset>>)
    ELSE IF model = current THEN PrintPlain(<<Bold, Green>> \o model \o <<" [CURRENT]", Reset>>)
    ELSE PrintPlain(<<Bold>> \o model \o <<Reset>>)

ModelLineBothAnnotations(model, current) ==
    IF model = current /\ model = DefaultModel
    THEN PrintPlain(<<Bold, Green>> \o model \o <<" [CURRENT]", " [DEFAULT]", Reset>>)
    ELSE IF model = current THEN PrintPlain(<<Bold, Green>> \o model \o <<" [CURRENT]", Reset>>)
    ELSE IF model = DefaultModel THEN PrintPlain(<<Bold>> \o model \o <<" [DEFAULT]", Reset>>)
    ELSE PrintPlain(<<Bold>> \o model \o <<Reset>>)

ModelLine(model, current) ==
    IF model = current THEN PrintPlain(<<Bold, Green>> \o model \o <<" [CURRENT]", Reset>>)
    ELSE IF model = DefaultModel THEN PrintPlain(<<Bold>> \o model \o <<" [DEFAULT]", Reset>>)
    ELSE PrintPlain(<<Bold>> \o model \o <<Reset>>)

ShowModels(f, fs) ==
    LET loaded == LoadConfig(f, fs)
    IN  IF ~loaded.ok
        THEN [err |-> loaded.err, events |-> loaded.events]
        ELSE [err |-> NoError,
              events |-> loaded.events
                  \o <<PrintPlain(<<Bold, Cyan, "Available Models:", Reset>>)>>
                  \o [i \in 1..Len(AvailableModels) |->
                         ModelLine(AvailableModels[i], loaded.cfg.Model)]]

(***************************************************************************)
(* Strings that are cut or trimmed, written out as character sequences     *)
(***************************************************************************)
\* fmt's %d
Digits == <<"0", "1", "2", "3", "4", "5", "6", "7", "8", "9">>

RECURSIVE Itoa(_)
Itoa(n) == IF n < 10 THEN <<Digits[n + 1]>> ELSE Itoa(n \div 10) \o <<Digits[(n % 10) + 1]>>

(***************************************************************************)
(* The git collaborator (GitClient): what the two queries answer           *)
(***************************************************************************)
DiffX == <<"d", "i", "f", "f", " ", "a", "/", "x", "\n">>

DiffBlank == <<" ", "\n", "\t">>

FilesX == <<"x", "\n">>

GitEnvs ==
    [diffErr : BOOLEAN, diff : {Empty, DiffBlank, DiffX},
     filesErr : BOOLEAN, files : {Empty, FilesX}]

GitQuiet == [diffErr |-> FALSE, diff |-> Empty, filesErr |-> FALSE, files |-> Empty]

\* RealGitClient.GetStagedDiff
GetStagedDiff(git) ==
    IF git.diffErr
    THEN [out |-> Empty, err |-> Errorf("GetStagedDiff", <<"error running git diff: ", Cause>>)]
    ELSE [out |-> git.diff, err |-> NoError]

\* RealGitClient.GetStagedFiles
GetStagedFiles(git) ==
    IF git.filesErr
    THEN [out |-> Empty, err |-> Errorf("GetStagedFiles", <<"error getting changed files: ", Cause>>)]
    ELSE [out |-> git.files, err |-> NoError]

(***************************************************************************)
(* The HTTP collaborator (HTTPClient.Do): a transport failure, or a        *)
(* response with a status, a body and a Close that may fail.  A body is    *)
(* its raw text together with its JSON reading: "garbage" is not JSON,     *)
(* "object" is one JSON object, "object+trailing" one JSON object followed *)
(* by further bytes.                                                       *)
(***************************************************************************)
Seg(text) == [text |-> text]

TextFeat == <<" ", "f", "e", "a", "t", ":", " ", "x", "\n">>

TextTwoLines == <<"f", "i", "x", ":", " ", "a", "\n", "b">>

TextBlank == <<" ", "\n">>

BodyFeat ==
    [raw |-> "{\"content\":[{\"text\":\" feat: x\\n\"}]}", syntax |-> "object",
     hasContent |-> TRUE, content |-> <<Seg(TextFeat)>>]

BodyTwoSegments ==
    [raw |-> "{\"content\":[{\"text\":\"fix: a\\nb\"},{\"text\":\" feat: x\\n\"}]}",
     syntax |-> "object", hasContent |-> TRUE,
     content |-> <<Seg(TextTwoLines), Seg(TextFeat)>>]

BodyBlankText ==
    [raw |-> "{\"content\":[{\"text\":\" \\n\"}]}", syntax |-> "object",
     hasContent |-> TRUE, content |-> <<Seg(TextBlank)>>]

BodyEmptyContent ==
    [raw |-> "{\"content\":[]}", syntax |-> "object", hasContent |-> TRUE, content |-> <<>>]

BodyUnauthorized ==
    [raw |-> "{\"error\":\"unauthorized\"}", syntax |-> "object",
     hasContent |-> FALSE, content |-> <<>>]

BodyGarbage ==
    [raw |-> "invalid json", syntax |-> "garbage", hasContent |-> FALSE, content |-> <<>>]

BodyTrailing ==
    [raw |-> "{\"content\":[{\"text\":\" feat: x\\n\"}]} invalid json",
     syntax |-> "object+trailing", hasContent |-> TRUE, content |-> <<Seg(TextFeat)>>]

Bodies ==
    {BodyFeat, BodyTwoSegments, BodyBlankText, BodyEmptyContent, BodyUnauthorized,
     BodyGarbage, BodyTrailing}

Statuses == {200, 201, 401, 500}

HTTPOutcomes ==
    [transportErr : {FALSE}, status : Statuses, body : Bodies, closeErr : BOOLEAN]
    \cup [transportErr : {TRUE}, status : {0}, body : {BodyGarbage}, closeErr : {FALSE}]

HTTPQuiet == [transportErr |-> TRUE, status |-> 0, body |-> BodyGarbage, closeErr |-> FALSE]

\* json.NewDecoder(resp.Body).Decode(&anthropicResp): reads the first JSON
\* value of the stream; Content stays nil when the object has no content
DecodeStrict(body) ==
    [ok |-> body.syntax = "object",
     Content |-> IF body.hasContent /\ body.syntax = "object"
                 THEN [i \in 1..Len(body.content) |-> body.content[i].text]
                 ELSE <<>>]

Decode(body) ==
    [ok |-> body.syntax \in {"object", "object+trailing"},
     Content |-> IF body.hasContent /\ body.syntax \in {"object", "object+trailing"}
                 THEN [i \in 1..Len(body.content) |-> body.content[i].text]
                 ELSE <<>>]

(***************************************************************************)
(* AnthropicService                                                        *)
(***************************************************************************)
AnthropicRequest(config, prompt) ==
    [method |-> "POST", url |-> "https://api.anthropic.com/v1/messages",
     ContentType |-> "application/json", XApiKey |-> config.ApiKey,
     AnthropicVersion |-> "2023-06-01",
     Model |-> config.Model,
     Messages |-> <<[Role |-> "user", Content |-> prompt]>>,
     MaxTokens |-> MaxTokens]

EvReadBody == [ev |-> "Body.Read"]

\* the deferred function of lines 345-349
DeferredCloseSkipped(http) == <<>>

DeferredClose(http) ==
    IF http.closeErr
    THEN <<EvClose, PrintError(<<"Error closing response body: ", Cause>>)>>
    ELSE <<EvClose>>

APIError(status, body) ==
    Errorf("Anthropic.status",
           <<"API error (status ">> \o Itoa(status) \o <<"): ", body.raw>>)

AnthropicNoStatusCheck(config, prompt, http) ==
    LET call == <<EvHTTP(AnthropicRequest(config, prompt))>>
        resp == Decode(http.body)
    IN  IF http.transportErr
        THEN [msg |-> Empty, err |-> Errorf("Anthropic.do", <<"error making API call: ", Cause>>),
              events |-> call]
        ELSE IF ~resp.ok
        THEN [msg |-> Empty,
              err |-> Errorf("Anthropic.parse", <<"error parsing API response: ", Cause>>),
              events |-> call \o <<EvReadBody>> \o DeferredClose(http)]
        ELSE IF Len(resp.Content) = 0
        THEN [msg |-> Empty, err |-> Errorf("Anthropic.empty", <<"empty response from API">>),
              events |-> call \o <<EvReadBody>> \o DeferredClose(http)]
        ELSE [msg |-> resp.Content[1], err |-> NoError,
              events |-> call \o <<EvReadBody>> \o DeferredClose(http)]

AnthropicNoEmptyCheck(config, prompt, http) ==
    LET call == <<EvHTTP(AnthropicRequest(config, prompt))>>
        resp == Decode(http.body)
    IN  IF http.transportErr
        THEN [msg |-> Empty, err |-> Errorf("Anthropic.do", <<"error making API call: ", Cause>>),
              events |-> call]
        ELSE IF http.status # StatusOK
        THEN [msg |-> Empty, err |-> APIError(http.status, http.body),
              events |-> call \o <<EvReadBody>> \o DeferredClose(http)]
        ELSE IF ~resp.ok
        THEN [msg |-> Empty,
              err |-> Errorf("Anthropic.parse", <<"error parsing API response: ", Cause>>),
              events |-> call \o <<EvReadBody>> \o DeferredClose(http)]
        ELSE [msg |-> IF Len(resp.Content) = 0 THEN Empty ELSE resp.Content[1],
              err |-> NoError,
              events |-> call \o <<EvReadBody>> \o DeferredClose(http)]

\* AnthropicService.GenerateCommitMessage
AnthropicGenerateCommitMessage(config, prompt, http) ==
    LET call == <<EvHTTP(AnthropicRequest(config, prompt))>>
        resp == Decode(http.body)
    IN  IF http.transportErr
        THEN [msg |-> Empty, err |-> Errorf("Anthropic.do", <<"error making API call: ", Cause>>),
              events |-> call]
        ELSE IF http.status # StatusOK
        THEN [msg |-> Empty, err |-> APIError(http.status, http.body),
              events |-> call \o <<EvReadBody>> \o DeferredClose(http)]
        ELSE IF ~resp.ok
        THEN [msg |-> Empty,
              err |-> Errorf("Anthropic.parse", <<"error parsing API response: ", Cause>>),
              events |-> call \o <<EvReadBody>> \o DeferredClose(http)]
        ELSE IF Len(resp.Content) = 0
        THEN [msg |-> Empty, err |-> Errorf("Anthropic.empty", <<"empty response from API">>),
              events |-> call \o <<EvReadBody>> \o DeferredClose(http)]
        ELSE [msg |-> resp.Content[1], err |-> NoError,
              events |-> call \o <<EvReadBody>> \o DeferredClose(http)]

(***************************************************************************)
(* CommitService                                                           *)
(***************************************************************************)
PromptHead == "Generate a conventional commit message ... Here are the files changed:\n"

PromptMid == "\n\nHere is the git diff:\n"

buildPrompt(files, diff) == <<PromptHead>> \o files \o <<PromptMid>> \o diff

QueryDiff == "diff --staged"

QueryFiles == "diff --staged --name-only"

\* fmt.Sprintf("git commit -m \"%s\"", commitMsg)
GitCommandNoQuotes(commitMsg) == <<"git commit -m ">> \o commitMsg

GitCommand(commitMsg) == <<"git commit -m \"">> \o commitMsg \o <<"\"">>

Progress == PrintPlain(<<Dim, "Analyzing git diff with Claude AI...", Reset>>)

Generated == PrintSuccess(<<"Commit message generated">>)

CommitNoTrim(f, fs, git, http) ==
    LET loaded == LoadConfig(f, fs)
        diff == GetStagedDiff(git)
        files == GetStagedFiles(git)
        answer == AnthropicGenerateCommitMessage(loaded.cfg, buildPrompt(files.out, diff.out), http)
        e1 == loaded.events \o <<EvGit(QueryDiff)>>
        e2 == e1 \o <<EvGit(QueryFiles)>>
        e3 == e2 \o <<Progress>> \o answer.events
    IN  IF ~loaded.ok THEN [err |-> loaded.err, events |-> loaded.events]
        ELSE IF diff.err # NoError THEN [err |-> diff.err, events |-> e1]
        ELSE IF files.err # NoError THEN [err |-> files.err, events |-> e2]
        ELSE IF diff.out = Empty
        THEN [err |-> Errorf("Commit.nostaged",
                             <<"no staged changes found. Use git add to stage changes">>),
              events |-> e2]
        ELSE IF answer.err # NoError THEN [err |-> answer.err, events |-> e3]
        ELSE [err |-> NoError,
              events |-> e3 \o <<Generated, PrintPlain(Empty),
                                 PrintPlain(<<Bold>> \o GitCommand(answer.msg) \o <<Reset>>)>>]

CommitRetries(f, fs, git, http) ==
    LET loaded == LoadConfig(f, fs)
        diff == GetStagedDiff(git)
        files == GetStagedFiles(git)
        answer == AnthropicGenerateCommitMessage(loaded.cfg, buildPrompt(files.out, diff.out), http)
        e2 == loaded.events \o <<EvGit(QueryDiff), EvGit(QueryFiles)>>
        e3 == e2 \o <<Progress>> \o answer.events
    IN  IF ~loaded.ok THEN [err |-> loaded.err, events |-> loaded.events]
        ELSE IF diff.err # NoError THEN [err |-> diff.err, events |-> loaded.events \o <<EvGit(QueryDiff)>>]
        ELSE IF files.err # NoError THEN [err |-> files.err, events |-> e2]
        ELSE IF TrimSpace(diff.out) = Empty
        THEN [err |-> Errorf("Commit.nostaged",
                             <<"no staged changes found. Use git add to stage changes">>),
              events |-> e2]
        ELSE IF answer.err # NoError
        THEN [err |-> answer.err, events |-> e3 \o answer.events]
        ELSE [err |-> NoError,
              events |-> e3 \o <<Generated, PrintPlain(Empty),
                                 PrintPlain(<<Bold>> \o GitCommand(TrimSpace(answer.msg))
                                            \o <<Reset>>)>>]

CommitNoticeBeforeCall(f, fs, git, http) ==
    LET loaded == LoadConfig(f, fs)
        diff == GetStagedDiff(git)
        files == GetStagedFiles(git)
        answer == AnthropicGenerateCommitMessage(loaded.cfg, buildPrompt(files.out, diff.out), http)
        e1 == loaded.events \o <<EvGit(QueryDiff)>>
        e2 == e1 \o <<EvGit(QueryFiles)>>
        e3 == e2 \o <<Progress, Generated>> \o answer.events
    IN  IF ~loaded.ok THEN [err |-> loaded.err, events |-> loaded.events]
        ELSE IF diff.err # NoError THEN [err |-> diff.err, events |-> e1]
        ELSE IF files.err # NoError THEN [err |-> files.err, events |-> e2]
        ELSE IF TrimSpace(diff.out) = Empty
        THEN [err |-> Errorf("Commit.nostaged",
                             <<"no staged changes found. Use git add to stage changes">>),
              events |-> e2]
        ELSE IF answer.err # NoError THEN [err |-> answer.err, events |-> e3]
        ELSE [err |-> NoError,
              events |-> e3 \o <<PrintPlain(Empty),
                                 PrintPlain(<<Bold>> \o GitCommand(TrimSpace(answer.msg))
                                            \o <<Reset>>)>>]

CommitProgressBeforeCheck(f, fs, git, http) ==
    LET loaded == LoadConfig(f, fs)
        diff == GetStagedDiff(git)
        files == GetStagedFiles(git)
        answer == AnthropicGenerateCommitMessage(loaded.cfg, buildPrompt(files.out, diff.out), http)
        e1 == loaded.events \o <<EvGit(QueryDiff)>>
        e2 == e1 \o <<EvGit(QueryFiles)>>
        e3 == e2 \o <<Progress>> \o answer.events
    IN  IF ~loaded.ok THEN [err |-> loaded.err, events |-> loaded.events]
        ELSE IF diff.err # NoError THEN [err |-> diff.err, events |-> e1]
        ELSE IF files.err # NoError THEN [err |-> files.err, events |-> e2]
        ELSE IF TrimSpace(diff.out) = Empty
        THEN [err |-> Errorf("Commit.nostaged",
                             <<"no staged changes found. Use git add to stage changes">>),
              events |-> e2 \o <<Progress>>]
        ELSE IF answer.err # NoError THEN [err |-> answer.err, events |-> e3]
        ELSE [err |-> NoError,
              events |-> e3 \o <<Generated, PrintPlain(Empty),
                                 PrintPlain(<<Bold>> \o GitCommand(TrimSpace(answer.msg))
                                            \o <<Reset>>)>>]

\* CommitService.GenerateCommitMessage
CommitGenerateCommitMessage(f, fs, git, http) ==
    LET loaded == LoadConfig(f, fs)
        diff == GetStagedDiff(git)
        files == GetStagedFiles(git)
        answer == AnthropicGenerateCommitMessage(loaded.cfg, buildPrompt(files.out, diff.out), http)
        e1 == loaded.events \o <<EvGit(QueryDiff)>>
        e2 == e1 \o <<EvGit(QueryFiles)>>
        e3 == e2 \o <<Progress>> \o answer.events
    IN  IF ~loaded.ok THEN [err |-> loaded.err, events |-> loaded.events]
        ELSE IF diff.err # NoError THEN [err |-> diff.err, events |-> e1]
        ELSE IF files.err # NoError THEN [err |-> files.err, events |-> e2]
        ELSE IF TrimSpace(diff.out) = Empty
        THEN [err |-> Errorf("Commit.nostaged",
                             <<"no staged changes found. Use git add to stage changes">>),
              events |-> e2]
        ELSE IF answer.err # NoError THEN [err |-> answer.err, events |-> e3]
        ELSE [err |-> NoError,
              events |-> e3 \o <<Generated, PrintPlain(Empty),
                                 PrintPlain(<<Bold>> \o GitCommand(TrimSpace(answer.msg))
                                            \o <<Reset>>)>>]

(***************************************************************************)
(* Command line.  argv is os.Args[1:]: the verb ("" when there is none),   *)
(* whether anything follows it, the two flags of config, and how the flag  *)
(* package reads what follows ("ok", "bad": an undefined or malformed      *)
(* flag, "help": -h or -help).                                             *)
(***************************************************************************)
Key11 == <<"s", "k", "-", "t", "e", "s", "t", "1", "2", "3", "4">>

Key11b == <<"s", "k", "-", "t", "X", "Y", "Z", "1", "2", "3", "4">>

Key4 == <<"s", "k", "-", "1">>

Keys == {Key4, Key11}

ModelA == <<"model-a">>

Models == {AvailableModels[1], ModelA}

Unset == [set |-> FALSE, val |-> Empty]

Given(v) == [set |-> TRUE, val |-> v]

KeyFlags == {Unset} \cup {Given(k) : k \in Keys}

ModelFlags == {Unset, Given(Empty), Given(ModelA)}

Argv(verb, more, apiKey, model, parse) ==
    [verb |-> verb, more |-> more, apiKey |-> apiKey, model |-> model, parse |-> parse]

Bare(verb) == Argv(verb, FALSE, Unset, Unset, "ok")

ConfigArgvs ==
    {Bare("config")}
    \cup {Argv("config", TRUE, k, m, "ok") : k \in KeyFlags, m \in ModelFlags}
    \cup {Argv("config", TRUE, Unset, Unset, p) : p \in {"bad", "help"}}

PlainArgvs(verb) ==
    {Bare(verb)} \cup {Argv(verb, TRUE, Unset, Unset, p) : p \in {"bad", "help"}}

\* configCmd.String("api-key", "", ...)
ApiKeyFlagValue(argv) == IF argv.apiKey.set THEN argv.apiKey.val ELSE Empty

\* configCmd.String("model", DefaultModel, ...)
ModelFlagDefaultEmpty(argv) == IF argv.model.set THEN argv.model.val ELSE Empty

ModelFlagValue(argv) == IF argv.model.set THEN argv.model.val ELSE DefaultModel

\* flag.FlagSet.Parse under flag.ExitOnError: on a malformed command line
\* the flag package reports it and exits with status 2, on -h/-help it
\* prints the usage and exits with status 0; it never returns an error
FlagExit(argv) ==
    IF argv.parse = "bad"
    THEN [exits |-> TRUE, code |-> 2,
          events |-> <<[ev |-> "stderr", msg |-> <<"flag provided but not defined">>],
                       EvExit(2)>>]
    ELSE IF argv.parse = "help"
    THEN [exits |-> TRUE, code |-> 0,
          events |-> <<[ev |-> "stderr", msg |-> <<"Usage">>], EvExit(0)>>]
    ELSE [exits |-> FALSE, code |-> 0, events |-> <<>>]

ShowHelp == <<PrintPlain(<<Bold, Magenta, "Claude Commit", Reset>>),
              PrintPlain(<<Bold, "Commands:", Reset>>)>>

ShowConfigHelp == <<PrintPlain(<<Bold, Magenta, "Claude Commit Config", Reset>>),
                    PrintPlain(<<Bold, "Usage:", Reset>>)>>

DevVersion == "v0.0.0-dev"

Versions == {DevVersion, "v1.2.3"}

ShowVersion(version) ==
    <<PrintPlain(<<Bold, Magenta, "Claude Commit", Reset, " ", Dim, version, Reset>>)>>
    \o (IF version # DevVersion
        THEN <<PrintPlain(<<Dim, "Build Date: ", Reset>>), PrintPlain(<<Dim, "Commit: ", Reset>>)>>
        ELSE <<>>)
    \o <<PrintPlain(<<Dim, "Generate conventional commit messages with Anthropic's Claude", Reset>>)>>

\* lines 669-672 of main: report the handler's error and exit 1
FinishExitsZero(f, r) ==
    IF r.err # NoError
    THEN [file |-> f, err |-> r.err, exit |-> 0,
          events |-> r.events \o <<PrintError(r.err.msg)>>]
    ELSE [file |-> f, err |-> NoError, exit |-> 0, events |-> r.events]

Finish(f, r) ==
    IF r.err # NoError
    THEN [file |-> f, err |-> r.err, exit |-> 1,
          events |-> r.events \o <<PrintError(r.err.msg), EvExit(1)>>]
    ELSE [file |-> f, err |-> NoError, exit |-> 0, events |-> r.events]

Done(f, events, code) == [file |-> f, err |-> NoError, exit |-> code, events |-> events]

MainConfigAlwaysSaves(f, argv, fs) ==
    IF FlagExit(argv).exits THEN Done(f, FlagExit(argv).events, FlagExit(argv).code)
    ELSE LET r == SaveConfig(f, ApiKeyFlagValue(argv), ModelFlagValue(argv), fs)
         IN  Finish(r.file, r)

\* main, case "config"
MainConfig(f, argv, fs) ==
    IF ~argv.more THEN Done(f, ShowConfigHelp, 0)
    ELSE IF FlagExit(argv).exits THEN Done(f, FlagExit(argv).events, FlagExit(argv).code)
    ELSE LET r == SaveConfig(f, ApiKeyFlagValue(argv), ModelFlagValue(argv), fs)
         IN  Finish(r.file, r)

\* main, cases "view", "models", "commit"
MainView(f, argv, fs) ==
    IF FlagExit(argv).exits THEN Done(f, FlagExit(argv).events, FlagExit(argv).code)
    ELSE Finish(f, ViewConfig(f, fs))

MainModels(f, argv, fs) ==
    IF FlagExit(argv).exits THEN Done(f, FlagExit(argv).events, FlagExit(argv).code)
    ELSE Finish(f, ShowModels(f, fs))

MainCommit(f, argv, fs, git, http) ==
    IF FlagExit(argv).exits THEN Done(f, FlagExit(argv).events, FlagExit(argv).code)
    ELSE Finish(f, CommitGenerateCommitMessage(f, fs, git, http))

MainHelpExitsOne(f, argv) == Done(f, ShowHelp \o <<EvExit(1)>>, 1)

\* main, case "help" and the global flags --help, -h, and no argument
MainHelp(f, argv) ==
    IF argv.verb = "help" /\ FlagExit(argv).exits
    THEN Done(f, FlagExit(argv).events, FlagExit(argv).code)
    ELSE Done(f, ShowHelp, 0)

\* main, global flags --version, -v
MainVersion(f, version) == Done(f, ShowVersion(version), 0)

MainUnknownShowsHelp(f, argv) == Done(f, ShowHelp, 0)

\* main, default case
MainUnknown(f, argv) ==
    [file |-> f, err |-> NoError, exit |-> 1,
     events |-> <<PrintError(<<"Unknown command '", argv.verb,
                               "'. Use 'help' to see available commands.">>),
                  EvExit(1)>>]

\* main's switch on os.Args[1] (lines 622-667), with the global flags before
\* it: what the invocation recorded in l does when it finds the file f
Dispatch(f, l) ==
    CASE l.cmd = "config" -> MainConfig(f, l.argv, l.fs)
      [] l.cmd = "view" -> MainView(f, l.argv, l.fs)
      [] l.cmd = "models" -> MainModels(f, l.argv, l.fs)
      [] l.cmd = "commit" -> MainCommit(f, l.argv, l.fs, l.git, l.http)
      [] l.cmd = "help" -> MainHelp(f, l.argv)
      [] l.cmd = "version" -> MainVersion(f, l.version)
      [] OTHER -> MainUnknown(f, l.argv)

(***************************************************************************)
(* State machine: one action per command of the command line               *)
(***************************************************************************)
\* file-system answers that differ in a call that is made
LoadEnvs == {fs \in FSEnvs : /\ ~fs.homeErr2 /\ ~fs.mkdirErr /\ fs.write = "ok"
                             /\ fs.homeErr1 => ~fs.readErr}

SaveEnvs == {fs \in FSEnvs : /\ fs.homeErr1 => ~fs.readErr
                             /\ fs.homeErr2 => ~fs.mkdirErr
                             /\ (fs.homeErr2 \/ fs.mkdirErr) => fs.write = "ok"}

\* configuration files that may be found at the first invocation
InitFiles ==
    {NoFile, Malformed, JSON({}, Empty, Empty), JSON({"api_key"}, Key4, Empty),
     JSON({"model"}, Empty, ModelA), JSON({"api_key", "model"}, Empty, DefaultModel),
     JSON({"api_key", "model"}, Key11, AvailableModels[1]),
     JSON({"api_key", "model"}, Key4, ModelA)}

NoRun ==
    [cmd |-> "none", argv |-> Bare(""), fs |-> FSQuiet, git |-> GitQuiet, http |-> HTTPQuiet,
     version |-> DevVersion, before |-> NoFile, err |-> NoError, events |-> <<>>, exit |-> 0]

Ran(cmd, argv, fs, git, http, version, r) ==
    [cmd |-> cmd, argv |-> argv, fs |-> fs, git |-> git, http |-> http,
     version |-> version, before |-> file, err |-> r.err, events |-> r.events,
     exit |-> r.exit]

\* the config invocations that may overlap, and one that is not under way
Procs == {1, 2}

Idle ==
    [pc |-> "idle", argv |-> Bare("config"), fs |-> FSQuiet, before |-> NoFile,
     existing |-> LoadConfig(NoFile, FSQuiet), seen |-> 0, order |-> 0, err |-> NoError]

NoneRunning == [p \in Procs |-> Idle]

Init == file \in InitFiles /\ last = NoRun /\ running = NoneRunning

InitFresh == file = NoFile /\ last = NoRun /\ running = NoneRunning

CmdConfig ==
    \E argv \in ConfigArgvs :
      \E fs \in (IF argv.more /\ argv.parse = "ok" THEN SaveEnvs ELSE {FSQuiet}) :
        LET r == MainConfig(file, argv, fs)
        IN  /\ file' = r.file
            /\ last' = Ran("config", argv, fs, GitQuiet, HTTPQuiet, DevVersion, r)
            /\ UNCHANGED running

CmdView ==
    \E argv \in PlainArgvs("view") :
      \E fs \in (IF argv.parse = "ok" THEN LoadEnvs ELSE {FSQuiet}) :
        LET r == MainView(file, argv, fs)
        IN  /\ file' = r.file
            /\ last' = Ran("view", argv, fs, GitQuiet, HTTPQuiet, DevVersion, r)
            /\ UNCHANGED running

CmdModels ==
    \E argv \in PlainArgvs("models") :
      \E fs \in (IF argv.parse = "ok" THEN LoadEnvs ELSE {FSQuiet}) :
        LET r == MainModels(file, argv, fs)
        IN  /\ file' = r.file
            /\ last' = Ran("models", argv, fs, GitQuiet, HTTPQuiet, DevVersion, r)
            /\ UNCHANGED running

\* the git and HTTP answers are drawn when the run gets to ask for them
GitAsked(f, argv, fs) == argv.parse = "ok" /\ LoadConfig(f, fs).ok

HTTPAsked(f, argv, fs, git) ==
    /\ GitAsked(f, argv, fs)
    /\ ~git.diffErr /\ ~git.filesErr /\ TrimSpace(git.diff) # Empty

GitAnswers ==
    {g \in GitEnvs : /\ g.diffErr => (g.diff = Empty /\ ~g.filesErr)
                     /\ (g.diffErr \/ g.filesErr) => g.files = Empty
                     /\ (~g.filesErr /\ g.diff = DiffX) => g.files = FilesX}

CmdCommit ==
    \E argv \in PlainArgvs("commit") :
      \E fs \in (IF argv.parse = "ok" THEN LoadEnvs ELSE {FSQuiet}) :
        \E git \in (IF GitAsked(file, argv, fs) THEN GitAnswers ELSE {GitQuiet}) :
          \E http \in (IF HTTPAsked(file, argv, fs, git) THEN HTTPOutcomes ELSE {HTTPQuiet}) :
            LET r == MainCommit(file, argv, fs, git, http)
            IN  /\ file' = r.file
                /\ last' = Ran("commit", argv, fs, git, http, DevVersion, r)
                /\ UNCHANGED running

CmdHelp ==
    \E argv \in PlainArgvs("help") \cup {Bare(""), Bare("--help"), Bare("-h")} :
        LET r == MainHelp(file, argv)
        IN  /\ file' = r.file
            /\ last' = Ran("help", argv, FSQuiet, GitQuiet, HTTPQuiet, DevVersion, r)
            /\ UNCHANGED running

CmdVersion ==
    \E argv \in {Bare("--version"), Bare("-v")}, version \in Versions :
        LET r == MainVersion(file, version)
        IN  /\ file' = r.file
            /\ last' = Ran("version", argv, FSQuiet, GitQuiet, HTTPQuiet, version, r)
            /\ UNCHANGED running

CmdUnknown ==
    \E argv \in {Bare("status"), Bare("--verbose")} :
        LET r == MainUnknown(file, argv)
        IN  /\ file' = r.file
            /\ last' = Ran("unknown", argv, FSQuiet, GitQuiet, HTTPQuiet, DevVersion, r)
            /\ UNCHANGED running

Next ==
    \/ CmdConfig
    \/ CmdView
    \/ CmdModels
    \/ CmdCommit
    \/ CmdHelp
    \/ CmdVersion
    \/ CmdUnknown

Spec == Init /\ [][Next]_vars

SpecFresh == InitFresh /\ [][Next]_vars

(***************************************************************************)
(* Properties                                                              *)
(***************************************************************************)
Select(events, kind) == SelectSeq(events, LAMBDA e : e.ev = kind)

Prints(events) == Select(events, "print")

Printed(events, p) == \E i \in 1..Len(events) : events[i] = p

StripANSI(msg) == SelectSeq(msg, LAMBDA c : c \notin ANSICodes)

\* the record a JSON file holds, read off its fields
Stored(f) == Config(f.api_key, f.model)

\* the last invocation called SaveConfig with these arguments
SaveInvoked == last.cmd = "config" /\ last.argv.more /\ last.argv.parse = "ok"

ArgKey == IF last.argv.apiKey.set THEN last.argv.apiKey.val ELSE Empty

ArgModel == IF last.argv.model.set THEN last.argv.model.val ELSE DefaultModel

\* the last invocation called the handler of view, models or commit
HandlerRan(cmd) == last.cmd = cmd /\ last.argv.parse = "ok"

PriorLoads == ~last.fs.homeErr1 /\ ~last.fs.readErr /\ last.before.kind = "json"

\* C1: when a prior configuration (k0, m0) with non-empty k0 loads, a
\* successful SaveConfig(apiKey, model) persists apiKey if it is non-empty and
\* k0 otherwise, and model if it is non-empty and m0 otherwise.
C1_MergeSemantics ==
    (SaveInvoked /\ last.err = NoError /\ PriorLoads
       /\ Stored(last.before).ApiKey # Empty)
    => /\ file.kind = "json"
       /\ file.has = {"api_key", "model"}
       /\ Stored(file).ApiKey =
            (IF ArgKey # Empty THEN ArgKey ELSE Stored(last.before).ApiKey)
       /\ Stored(file).Model =
            (IF ArgModel # Empty THEN ArgModel ELSE Stored(last.before).Model)

\* C1 witness: a save with an empty key and a new model succeeded over a
\* stored record, and the stored key survived while the model changed.
C1_Witness ==
    /\ SaveInvoked /\ last.err = NoError /\ PriorLoads
    /\ ArgKey = Empty /\ ArgModel = ModelA
    /\ Stored(last.before) = Config(Key11, AvailableModels[1])
    /\ Stored(file) = Config(Key11, ModelA)

\* C2 (as claimed): at the command line an omitted flag preserves the stored
\* value: config without -model leaves the stored model as it was, config
\* without -api-key leaves the stored key as it was.
C2_OmittedFlagPreserves ==
    (SaveInvoked /\ last.err = NoError /\ PriorLoads)
    => /\ ~last.argv.model.set => Stored(file).Model = Stored(last.before).Model
       /\ ~last.argv.apiKey.set => Stored(file).ApiKey = Stored(last.before).ApiKey

\* C3: SaveConfig fails with 'API key is required' exactly when the apiKey
\* argument is empty and no prior configuration with a non-empty key loads;
\* then nothing is written and no success message is reported.
C3_ValidationError ==
    SaveInvoked =>
      /\ (last.err.site = "SaveConfig.validate")
           <=> (ArgKey = Empty /\ ~(PriorLoads /\ Stored(last.before).ApiKey # Empty))
      /\ (last.err.site = "SaveConfig.validate") =>
           /\ last.err.msg = <<"API key is required. Use -api-key flag to set it">>
           /\ file = last.before
           /\ Select(last.events, "WriteFile") = <<>>
           /\ Select(last.events, "MkdirAll") = <<>>
           /\ \A i \in 1..Len(last.events) :
                last.events[i].ev = "print" => last.events[i].kind = "PrintError"
           /\ last.exit = 1

\* C3 witness: a save without a key over a stored record whose key is empty
\* failed validation.
C3_Witness ==
    /\ SaveInvoked /\ last.err.site = "SaveConfig.validate"
    /\ PriorLoads /\ last.before.has = {"api_key", "model"}
    /\ ArgModel = ModelA

\* C4: starting from no configuration file, whenever the configuration file
\* holds a record, the record's apiKey is non-empty (a file that a failed
\* write left truncated holds no record, and every other file was written
\* by a save).
C4_StoredKeyNonEmpty ==
    /\ file.kind = "json" => (Stored(file).ApiKey # Empty /\ Unmarshal(file).ApiKey # Empty)
    /\ file.kind = "json" => file.has = {"api_key", "model"}

\* C4 witness: a file exists after a save that kept a previously saved key.
C4_Witness ==
    /\ file.kind = "json" /\ SaveInvoked /\ last.err = NoError
    /\ ArgKey = Empty /\ last.before.kind = "json"

(***************************************************************************)
(* Properties of commit and of the remote call                             *)
(***************************************************************************)
Blank(s) == \A i \in 1..Len(s) : s[i] \in WhiteSpace

HTTPCalled == Select(last.events, "http") # <<>>

Responded == HTTPCalled /\ ~last.http.transportErr

\* what the remote call of the last commit returned to its caller
Answer(http) ==
    AnthropicGenerateCommitMessage(Stored(last.before),
                                   buildPrompt(last.git.files, last.git.diff), http)

NoStagedChanges ==
    Errorf("Commit.nostaged", <<"no staged changes found. Use git add to stage changes">>)

\* C5 (as claimed): whenever the configuration loads and the staged-diff
\* query returns empty or whitespace-only text, commit fails with the
\* no-staged-changes error and issues no HTTP call.
C5_EmptyDiffAlwaysNoStaged ==
    (HandlerRan("commit") /\ PriorLoads /\ ~last.git.diffErr /\ Blank(last.git.diff))
    => (last.err = NoStagedChanges /\ ~HTTPCalled)

\* C5 (amended): whenever the configuration loads and the staged-diff query
\* returns empty or whitespace-only text, commit issues no HTTP call, and it
\* fails with the no-staged-changes error provided the staged-file-list query
\* succeeds; when that query fails, commit fails with the query's error.
C5_EmptyDiffNoStaged ==
    (HandlerRan("commit") /\ PriorLoads /\ ~last.git.diffErr /\ Blank(last.git.diff))
    => /\ ~HTTPCalled
       /\ last.exit = 1
       /\ ~last.git.filesErr => last.err = NoStagedChanges
       /\ last.git.filesErr => last.err.site = "GetStagedFiles"

\* C5 witness: a commit over a whitespace-only diff failed with the
\* no-staged-changes error after both queries.
C5_Witness ==
    /\ HandlerRan("commit") /\ PriorLoads /\ last.git.diff = DiffBlank
    /\ last.err = NoStagedChanges
    /\ Len(Select(last.events, "git")) = 2

\* C6: on every successful commit the last thing reported is
\* git commit -m "<s>" (between the bold and reset codes), s being the first
\* content segment of the response with surrounding whitespace removed; it
\* follows the success notice, and git is only asked the two staged queries.
C6_ReportedCommand ==
    (HandlerRan("commit") /\ last.err = NoError)
    => LET n == Len(last.events)
           s == TrimSpace(last.http.body.content[1].text)
       IN  /\ last.events[n] = PrintPlain(<<Bold, "git commit -m \"">> \o s \o <<"\"", Reset>>)
           /\ StripANSI(last.events[n].msg) = <<"git commit -m \"">> \o s \o <<"\"">>
           /\ (s = Empty \/ (s[1] \notin WhiteSpace /\ s[Len(s)] \notin WhiteSpace))
           /\ \E i \in 1..(n - 1) : last.events[i] = Generated
           /\ Select(last.events, "git") = <<EvGit(QueryDiff), EvGit(QueryFiles)>>
           /\ last.exit = 0

\* C6 witness: the response text " feat: x\n" was reported as
\* git commit -m "feat: x".
C6_Witness ==
    /\ HandlerRan("commit") /\ last.err = NoError
    /\ last.http.body = BodyFeat
    /\ StripANSI(last.events[Len(last.events)].msg)
         = <<"git commit -m \"", "f", "e", "a", "t", ":", " ", "x", "\"">>

\* C7: for every response whose status is not a success status the remote
\* call fails with an error carrying the status code and the raw body, and
\* returns no suggestion.
C7_RemoteError ==
    (HandlerRan("commit") /\ Responded /\ last.http.status \notin 200..299)
    => /\ last.err.site = "Anthropic.status"
       /\ last.err.msg = <<"API error (status ">> \o Itoa(last.http.status)
                           \o <<"): ", last.http.body.raw>>
       /\ Answer(last.http).msg = Empty
       /\ ~Printed(last.events, Generated)
       /\ last.exit = 1

\* C7 witness: status 401 with body {"error":"unauthorized"} was reported
\* with both in the error.
C7_Witness ==
    /\ HandlerRan("commit") /\ Responded /\ last.http.status = 401
    /\ last.err.msg = <<"API error (status ", "4", "0", "1", "): ",
                        "{\"error\":\"unauthorized\"}">>

\* C8: a response with status 200 whose parsed content sequence is empty (an
\* empty list or no content field) fails with the empty-response error, and
\* never yields an empty suggestion as a success.
C8_EmptyResponse ==
    (HandlerRan("commit") /\ Responded /\ last.http.status = 200
       /\ last.http.body.syntax = "object"
       /\ (~last.http.body.hasContent \/ last.http.body.content = <<>>))
    => /\ last.err = Errorf("Anthropic.empty", <<"empty response from API">>)
       /\ Answer(last.http).err # NoError
       /\ Answer(last.http).msg = Empty
       /\ ~Printed(last.events, Generated)
       /\ last.exit = 1

\* C8 witness: {"content":[]} at status 200 failed with the empty-response
\* error.
C8_Witness ==
    /\ HandlerRan("commit") /\ Responded /\ last.http.status = 200
    /\ last.http.body = BodyEmptyContent
    /\ last.err.site = "Anthropic.empty"

CloseReport == PrintError(<<"Error closing response body: ", Cause>>)

\* C9: whenever the HTTP call returns a response its body is closed exactly
\* once before the remote call returns (after the body is read, before
\* anything the caller reports afterwards), on every exit path; a failing
\* close is reported through the printer and changes neither the returned
\* suggestion nor the returned error.  Without a response nothing is closed.
C9_BodyClosedOnce ==
    (HandlerRan("commit") /\ HTTPCalled)
    => LET ev == last.events
           closes == {i \in 1..Len(ev) : ev[i] = EvClose}
           flipped == [last.http EXCEPT !.closeErr = ~@]
       IN  /\ last.http.transportErr => closes = {}
           /\ ~last.http.transportErr =>
                /\ Cardinality(closes) = 1
                /\ \A c \in closes :
                     /\ \E h \in 1..(c - 1) : ev[h].ev = "http"
                     /\ \A r \in 1..Len(ev) : ev[r] = EvReadBody => r < c
                     /\ \A g \in 1..Len(ev) : ev[g] = Generated => c < g
                     /\ last.http.closeErr => ev[c + 1] = CloseReport
                /\ Printed(ev, CloseReport) <=> last.http.closeErr
                /\ Answer(last.http).msg = Answer(flipped).msg
                /\ Answer(last.http).err = Answer(flipped).err
                /\ last.err = Answer(flipped).err

\* C9 witness: a response that failed to parse was closed once, and the
\* failure of the close was reported while the parse error was returned.
C9_Witness ==
    /\ HandlerRan("commit") /\ Responded /\ last.http.closeErr
    /\ last.err.site = "Anthropic.parse"
    /\ Len(Select(last.events, "Body.Close")) = 1
    /\ Printed(last.events, CloseReport)

(***************************************************************************)
(* Properties of LoadConfig                                                *)
(***************************************************************************)
LoadRan == HandlerRan("view") \/ HandlerRan("models") \/ HandlerRan("commit")

Loaded == LoadConfig(last.before, last.fs)

CannotRead == last.before.kind = "absent" \/ last.fs.readErr

\* how the three commands pass on a failed load: the load's error is the
\* command's error, and the only report is that error
LoadFailurePropagates ==
    (LoadRan /\ ~Loaded.ok)
    => /\ last.err = Loaded.err
       /\ Prints(last.events) = <<PrintError(Loaded.err.msg)>>
       /\ Select(last.events, "git") = <<>>
       /\ Select(last.events, "http") = <<>>
       /\ last.exit = 1

LoadedRecordIsUsed ==
    /\ (HandlerRan("view") /\ Loaded.ok) =>
         Printed(last.events, PrintPlain(<<Bold, "Model: ", Reset>> \o Stored(last.before).Model))
    /\ (HandlerRan("commit") /\ HTTPCalled) =>
         /\ Select(last.events, "http")[1].req.XApiKey = Stored(last.before).ApiKey
         /\ Select(last.events, "http")[1].req.Model = Stored(last.before).Model

\* C10 (as claimed): LoadConfig fails with the not-configured error (with
\* the suggestion to run 'config' first) whenever the file cannot be read,
\* with a parse error when it is readable but malformed, and otherwise
\* returns exactly the stored record; view, models and commit propagate a
\* load failure and report nothing else.
C10_LoadOutcomesAsClaimed ==
    (LoadRan \/ SaveInvoked)
    => /\ CannotRead =>
            /\ Loaded.err.site = "LoadConfig.read"
            /\ ContainsPiece(Loaded.err.msg, RunConfigFirst)
       /\ (~CannotRead /\ last.before.kind = "malformed") =>
            Loaded.err.site = "LoadConfig.parse"
       /\ (~CannotRead /\ last.before.kind = "json") =>
            (Loaded.ok /\ Loaded.cfg = Stored(last.before))
       /\ LoadFailurePropagates

\* C10 (amended): when the home directory resolves, LoadConfig fails with
\* the not-configured error (with the suggestion to run 'config' first)
\* whenever the file cannot be read, with a parse error when it is readable
\* but malformed, and otherwise returns exactly the stored record; when the
\* home directory does not resolve it fails with a home-directory error that
\* carries no such suggestion.  view, models and commit propagate a load
\* failure and report nothing else.
C10_LoadOutcomes ==
    (LoadRan \/ SaveInvoked)
    => /\ last.fs.homeErr1 =>
            /\ Loaded.err.site = "LoadConfig.home"
            /\ ~ContainsPiece(Loaded.err.msg, RunConfigFirst)
       /\ (~last.fs.homeErr1 /\ CannotRead) =>
            /\ Loaded.err.site = "LoadConfig.read"
            /\ ContainsPiece(Loaded.err.msg, RunConfigFirst)
       /\ (~last.fs.homeErr1 /\ ~CannotRead /\ last.before.kind = "malformed") =>
            /\ Loaded.err.site = "LoadConfig.parse"
            /\ ~ContainsPiece(Loaded.err.msg, RunConfigFirst)
       /\ (~last.fs.homeErr1 /\ ~CannotRead /\ last.before.kind = "json") =>
            (Loaded.ok /\ Loaded.err = NoError /\ Loaded.cfg = Stored(last.before))
       /\ LoadFailurePropagates
       /\ LoadedRecordIsUsed

\* C10 witness: view over a malformed file failed with the parse error, and
\* that error is all it reported.
C10_Witness ==
    /\ HandlerRan("view") /\ ~last.fs.homeErr1 /\ ~CannotRead
    /\ last.before.kind = "malformed"
    /\ last.err.site = "LoadConfig.parse"
    /\ Len(Prints(last.events)) = 1

(***************************************************************************)
(* Properties of the command dispatcher                                    *)
(***************************************************************************)
Invoked == last.cmd # "none"

\* the flag package rejected what follows the verb
FlagParseFailure == last.argv.parse = "bad"

FSEvents ==
    Select(last.events, "UserHomeDir") \o Select(last.events, "ReadFile")
    \o Select(last.events, "MkdirAll") \o Select(last.events, "WriteFile")

NoServiceCall ==
    /\ FSEvents = <<>>
    /\ Select(last.events, "git") = <<>>
    /\ Select(last.events, "http") = <<>>
    /\ file = last.before

\* C11 (as claimed): every invocation exits with status 0 when it succeeds
\* or shows help or version, and with status exactly 1 whenever an error is
\* reported, a flag-parse failure of any subcommand included.
C11_ExitStatus ==
    Invoked =>
      IF FlagParseFailure \/ last.err # NoError \/ last.cmd = "unknown"
      THEN last.exit = 1
      ELSE last.exit = 0

\* C12 (as claimed): no arguments, help, --help and -h show the help text
\* and exit with status 0, whatever follows; the configuration is neither
\* read nor written.
C12_HelpNeverFails ==
    last.cmd = "help" => (last.events = ShowHelp /\ last.exit = 0 /\ NoServiceCall)

\* C12 (amended): no arguments, --help, -h, and help followed by nothing the
\* flag package stops at show the help text and exit with status 0; help
\* followed by an undefined flag ends with a non-zero status, and help
\* followed by -h ends with status 0, both with the flag package's usage in
\* place of the help text.  In every case the configuration is neither read
\* nor written.
C12_HelpOutcomes ==
    last.cmd = "help" =>
      /\ NoServiceCall
      /\ last.err = NoError
      /\ last.argv.parse = "ok" => (last.events = ShowHelp /\ last.exit = 0)
      /\ last.argv.parse = "bad" => (last.exit # 0 /\ Prints(last.events) = <<>>)
      /\ last.argv.parse = "help" => (last.exit = 0 /\ Prints(last.events) = <<>>)
      /\ last.argv.verb \in {"", "--help", "-h"} => last.argv.parse = "ok"

\* C12 witness: the program was run without arguments, over no
\* configuration, and showed the help text with status 0.
C12_Witness ==
    /\ last.cmd = "help" /\ last.argv.verb = "" /\ last.before = NoFile
    /\ last.events = ShowHelp /\ last.exit = 0

\* C13: a first argument that is no command and no global flag is reported
\* as an unknown command, the run ends with a non-zero status, and no
\* service operation is invoked.
C13_UnknownCommand ==
    last.cmd = "unknown" =>
      /\ Prints(last.events) =
           <<PrintError(<<"Unknown command '", last.argv.verb,
                          "'. Use 'help' to see available commands.">>)>>
      /\ last.events[Len(last.events)] = EvExit(last.exit)
      /\ last.exit # 0
      /\ NoServiceCall

\* C13 witness: the verb status was rejected over a stored configuration.
C13_Witness ==
    /\ last.cmd = "unknown" /\ last.argv.verb = "status" /\ last.exit = 1
    /\ last.before.kind = "json" /\ file = last.before

\* C14: config with no further arguments shows the configuration help and
\* succeeds without invoking save: the configuration file is neither read
\* nor modified, also when there is none.
C14_BareConfigShowsHelp ==
    (last.cmd = "config" /\ ~last.argv.more) =>
      /\ last.events = ShowConfigHelp
      /\ last.err = NoError /\ last.exit = 0
      /\ NoServiceCall

\* C14 witness: config alone succeeded while no configuration existed.
C14_Witness ==
    /\ last.cmd = "config" /\ ~last.argv.more /\ last.before = NoFile
    /\ file = NoFile /\ last.exit = 0

Indices(events, kind) == {i \in 1..Len(events) : events[i].ev = kind}

RemoteSites == {"Anthropic.do", "Anthropic.status", "Anthropic.parse", "Anthropic.empty"}

\* C15: a commit issues at most one HTTP call and at most two git queries,
\* the staged diff and then the staged file list, one after the other and
\* before the HTTP call; a failed remote call is not retried, and a
\* successful run issued exactly one HTTP call.
C15_CallCounts ==
    last.cmd = "commit" =>
      LET gits == Select(last.events, "git")
          https == Select(last.events, "http")
      IN  /\ Len(https) <= 1
          /\ gits \in {<<>>, <<EvGit(QueryDiff)>>, <<EvGit(QueryDiff), EvGit(QueryFiles)>>}
          /\ \A g \in Indices(last.events, "git"), h \in Indices(last.events, "http") : g < h
          /\ Len(https) = 1 => Len(gits) = 2
          /\ last.err.site \in RemoteSites => Len(https) = 1
          /\ last.err = NoError /\ last.argv.parse = "ok" => Len(https) = 1

\* C15 witness: a commit whose remote call failed in transport made one HTTP
\* call after its two git queries.
C15_Witness ==
    /\ HandlerRan("commit") /\ last.err.site = "Anthropic.do"
    /\ Len(Select(last.events, "http")) = 1
    /\ Len(Select(last.events, "git")) = 2

\* the mask of a key as the claim gives it
MaskOf(k) ==
    IF Len(k) <= 8 THEN <<"*", "*", "*", "*", "*", "*", "*", "*">>
    ELSE <<k[1], k[2], k[3], k[4], "*", "*", "*", "*",
           k[Len(k) - 3], k[Len(k) - 2], k[Len(k) - 1], k[Len(k)]>>

\* a view that reads the file without a file-system failure
ViewReads(l) ==
    l.cmd = "view" /\ l.argv.parse = "ok" /\ ~l.fs.homeErr1 /\ ~l.fs.readErr

\* C16: a view that follows a successful SaveConfig(k, m) with both arguments
\* non-empty, and reads what it wrote, reports the model m and the key as
\* the mask of k, not as k (a key that is its own mask is the one key whose
\* mask reads like it).
C16_SaveThenView ==
    [][ (SaveInvoked /\ last.err = NoError /\ ArgKey # Empty /\ ArgModel # Empty
           /\ ViewReads(last'))
        => /\ last'.err = NoError
           /\ Prints(last'.events) =
                << PrintPlain(<<Bold, Cyan, "Current Configuration:", Reset>>),
                   PrintPlain(<<Bold, "API Key: ", Reset>> \o MaskOf(ArgKey)),
                   PrintPlain(<<Bold, "Model: ", Reset>> \o ArgModel) >>
           /\ (MaskOf(ArgKey) = ArgKey
               \/ ~Printed(last'.events, PrintPlain(<<Bold, "API Key: ", Reset>> \o ArgKey)))
           /\ last'.before = file ]_vars

\* C16 witness: view over the saved key sk-test1234 and model model-a
\* reported sk-t****1234 and model-a.
C16_Witness ==
    /\ ViewReads(last) /\ last.err = NoError
    /\ Stored(last.before) = Config(Key11, ModelA)
    /\ Printed(last.events,
               PrintPlain(<<Bold, "API Key: ", Reset, "s", "k", "-", "t",
                            "*", "*", "*", "*", "1", "2", "3", "4">>))
    /\ Printed(last.events, PrintPlain(<<Bold, "Model: ", Reset, "model-a">>))

(***************************************************************************)
(* MaskAPIKey over every key up to a length: the keys are found stored in  *)
(* the configuration file and view applies MaskAPIKey to them.             *)
(***************************************************************************)
MaxKeyLen == 10

KeyAlphabet == {"k", "*"}

MaskInputs == UNION {[1..n -> KeyAlphabet] : n \in 0..MaxKeyLen}

InitMask ==
    /\ file \in {MarshalIndent(Config(k, DefaultModel)) : k \in MaskInputs}
    /\ last = NoRun
    /\ running = NoneRunning

NextMask == CmdView

SpecMask == InitMask /\ [][NextMask]_vars

EightStars == <<"*", "*", "*", "*", "*", "*", "*", "*">>

\* C17: MaskAPIKey gives the fixed mask ******** for every key of length
\* at most 8, the empty key included, and for a longer key its first 4
\* characters, ****, and its last 4 characters: 12 characters whatever the
\* length; the result is never empty.  Stated of the key line view reports.
C17_MaskShape ==
    (ViewReads(last) /\ last.err = NoError)
    => LET k == last.before.api_key
           line == Prints(last.events)[2].msg
           out == SubSeq(line, 4, Len(line))
       IN  /\ SubSeq(line, 1, 3) = <<Bold, "API Key: ", Reset>>
           /\ out = MaskAPIKey(k)
           /\ out # Empty
           /\ Len(k) <= 8 => out = EightStars
           /\ Len(k) > 8 =>
                /\ Len(out) = 12
                /\ \A i \in 1..4 : out[i] = k[i] /\ out[4 + i] = "*"
                                   /\ out[8 + i] = k[Len(k) - 4 + i]

\* C17 witness: view reported a stored key of 9 characters as its first 4
\* characters, ****, and its last 4 characters.
C17_Witness ==
    /\ ViewReads(last) /\ last.err = NoError
    /\ last.before.api_key = <<"k", "k", "k", "*", "*", "k", "*", "k", "k">>
    /\ Prints(last.events)[2].msg =
         <<Bold, "API Key: ", Reset, "k", "k", "k", "*", "*", "*", "*", "*",
           "k", "*", "k", "k">>

\* C17 witness of the short case is part of the same runs: a key of exactly
\* 8 characters is reported as the fixed mask.
C17_WitnessShort ==
    /\ ViewReads(last) /\ last.err = NoError
    /\ Len(last.before.api_key) = 8
    /\ Prints(last.events)[2].msg = <<Bold, "API Key: ", Reset>> \o EightStars

(***************************************************************************)
(* The model listing                                                       *)
(***************************************************************************)
Listed == HandlerRan("models") /\ Loaded.ok

\* the line of the listing that reports the i-th supported model
Entry(i) == Prints(last.events)[i + 1].msg

DefaultIndex == CHOOSE i \in 1..Len(AvailableModels) : AvailableModels[i] = DefaultModel

\* C18: with a loadable configuration ShowModels reports every supported
\* model identifier exactly once, in the order of the supported list; the
\* entry of the configured model is marked [CURRENT], and when the
\* configured model is not the default, the default's entry is marked
\* [DEFAULT].
C18_ModelListing ==
    Listed =>
      LET n == Len(AvailableModels)
          current == Loaded.cfg.Model
      IN  /\ last.err = NoError
          /\ Len(Prints(last.events)) = n + 1
          /\ \A i \in 1..n :
               /\ StripANSI(Entry(i))[1] = AvailableModels[i][1]
               /\ Cardinality({j \in 1..n :
                     ContainsPiece(Entry(j), AvailableModels[i][1])}) = 1
               /\ AvailableModels[i] = current
                    => ContainsPiece(Entry(i), " [CURRENT]")
               /\ (AvailableModels[i] = DefaultModel /\ current # DefaultModel)
                    => ContainsPiece(Entry(i), " [DEFAULT]")

\* C18 witness: a listing with a configured model of the list that is not
\* the default: two different entries are marked.
C18_Witness ==
    /\ Listed /\ last.err = NoError
    /\ Loaded.cfg.Model = AvailableModels[1]
    /\ ContainsPiece(Entry(1), " [CURRENT]")
    /\ ContainsPiece(Entry(DefaultIndex), " [DEFAULT]")

\* C19 as claimed: in every successful listing the default's entry carries
\* the default annotation, and when the configured model is the default the
\* same entry carries both annotations.
C19_DefaultAlwaysMarked ==
    Listed =>
      /\ ContainsPiece(Entry(DefaultIndex), " [DEFAULT]")
      /\ Loaded.cfg.Model = DefaultModel
           => ContainsPiece(Entry(DefaultIndex), " [CURRENT]")

\* C19: in a successful listing the default's entry carries the default
\* annotation exactly when the configured model is not the default; when
\* the configured model is the default, its entry carries the current
\* annotation alone and no entry of the listing is marked as default; no
\* entry carries both annotations.
C19_DefaultMarkedUnlessCurrent ==
    Listed =>
      LET current == Loaded.cfg.Model
      IN  /\ ContainsPiece(Entry(DefaultIndex), " [DEFAULT]")
               <=> current # DefaultModel
          /\ ContainsPiece(Entry(DefaultIndex), " [CURRENT]")
               <=> current = DefaultModel
          /\ current = DefaultModel =>
               \A i \in 1..Len(AvailableModels) :
                   ~ContainsPiece(Entry(i), " [DEFAULT]")
          /\ \A i \in 1..Len(AvailableModels) :
               ~(ContainsPiece(Entry(i), " [CURRENT]")
                 /\ ContainsPiece(Entry(i), " [DEFAULT]"))

\* C19 witness: a listing with the default as the configured model; its
\* entry reads as current and nothing else.
C19_Witness ==
    /\ Listed /\ last.err = NoError
    /\ Loaded.cfg.Model = DefaultModel
    /\ Entry(DefaultIndex) = <<Bold, Green>> \o DefaultModel \o <<" [CURRENT]", Reset>>

(***************************************************************************)
(* The steps of commit.  Each event of a commit run belongs to one step:   *)
(* 1 load configuration, 2 staged-diff query, 3 staged-file-list query,    *)
(* 4 empty-diff check (it leaves no event), 5 progress notice, 6 remote    *)
(* call, 7 output; 8 is main reporting the returned error and exiting.     *)
(***************************************************************************)
StepOf(e) ==
    IF e.ev \in {"UserHomeDir", "ReadFile"} THEN 1
    ELSE IF e = EvGit(QueryDiff) THEN 2
    ELSE IF e = EvGit(QueryFiles) THEN 3
    ELSE IF e = Progress THEN 5
    ELSE IF e.ev \in {"http", "Body.Read", "Body.Close"} \/ e = CloseReport THEN 6
    ELSE IF e.ev = "os.Exit" \/ (e.ev = "print" /\ e.kind = "PrintError") THEN 8
    ELSE 7

\* the step an error comes from; 7 when there is none
StepOfSite(site) ==
    IF site \in {"LoadConfig.home", "LoadConfig.read", "LoadConfig.parse"} THEN 1
    ELSE IF site = "GetStagedDiff" THEN 2
    ELSE IF site = "GetStagedFiles" THEN 3
    ELSE IF site = "Commit.nostaged" THEN 4
    ELSE IF site \in RemoteSites THEN 6
    ELSE 7

\* C20: commit performs its steps in the fixed order load configuration,
\* staged-diff query, staged-file-list query, empty-diff check, progress
\* notice, remote call, output; the remote call is made with the
\* configuration the first step loaded and a prompt that embeds the file
\* list and the diff; a failure at a step is the command's error, every
\* step before it was performed and none after it.
C20_StepOrder ==
    HandlerRan("commit") =>
      LET ev == last.events
          stop == StepOfSite(last.err.site)
          performed == {StepOf(ev[i]) : i \in 1..Len(ev)} \ {8}
      IN  /\ \A i, j \in 1..Len(ev) : i < j => StepOf(ev[i]) <= StepOf(ev[j])
          /\ performed = {1, 2, 3, 5, 6, 7} \cap 1..stop
          /\ stop = 4 => TrimSpace(last.git.diff) = Empty
          /\ stop > 4 => TrimSpace(last.git.diff) # Empty
          /\ last.err # NoError =>
               /\ last.exit = 1
               /\ SubSeq(ev, Len(ev) - 1, Len(ev))
                    = <<PrintError(last.err.msg), EvExit(1)>>
          /\ last.err = NoError =>
               last.exit = 0 /\ \A i \in 1..Len(ev) : StepOf(ev[i]) # 8
          /\ \A i \in Indices(ev, "http") :
               /\ ev[i].req.XApiKey = Stored(last.before).ApiKey
               /\ ev[i].req.Model = Stored(last.before).Model
               /\ Len(ev[i].req.Messages) = 1
               /\ ev[i].req.Messages[1].Content
                    = <<PromptHead>> \o last.git.files \o <<PromptMid>> \o last.git.diff

\* C20 witness: a commit whose remote call answered with an error status:
\* the steps up to the remote call ran in order, with the stored key and
\* the file list and diff git gave, and nothing was output.
C20_Witness ==
    /\ HandlerRan("commit") /\ last.err.site = "Anthropic.status"
    /\ last.git.diff = DiffX /\ last.git.files = FilesX
    /\ SubSeq(last.events, 1, 6) =
         <<EvHome, EvRead, EvGit(QueryDiff), EvGit(QueryFiles), Progress,
           EvHTTP(AnthropicRequest(Config(Key11, AvailableModels[1]),
                                   <<PromptHead>> \o FilesX \o <<PromptMid>> \o DiffX))>>
    /\ ~Printed(last.events, Generated)

\* C20 witness of the full run: all seven steps, ending with the command.
C20_WitnessSuccess ==
    /\ HandlerRan("commit") /\ last.err = NoError
    /\ {StepOf(last.events[i]) : i \in 1..Len(last.events)} = {1, 2, 3, 5, 6, 7}

(***************************************************************************)
(* The outcome of the remote call                                          *)
(***************************************************************************)
\* the outcome of the remote call, decided in the order of the claim with
\* wellFormed(body) saying which bodies are not malformed
OutcomeInOrder(wellFormed(_)) ==
    LET a == Answer(last.http)
        h == last.http
    IN  IF h.transportErr
        THEN /\ a.err.site = "Anthropic.do" /\ a.msg = Empty
             /\ Select(last.events, "Body.Close") = <<>>
             /\ Select(last.events, "Body.Read") = <<>>
        ELSE IF h.status # 200
        THEN a.err.site = "Anthropic.status" /\ a.msg = Empty
        ELSE IF ~wellFormed(h.body)
        THEN a.err.site = "Anthropic.parse" /\ a.msg = Empty
        ELSE IF ~h.body.hasContent \/ h.body.content = <<>>
        THEN a.err.site = "Anthropic.empty" /\ a.msg = Empty
        ELSE a.err = NoError /\ a.msg = h.body.content[1].text

IsOneJSONValue(body) == body.syntax = "object"

StartsWithJSONValue(body) == body.syntax \in {"object", "object+trailing"}

\* C21 as claimed: the remote call decides its outcome in the order
\* transport error (no response, nothing released), remote error for every
\* status other than 200 whatever the body, parse error for a malformed
\* body, empty-response error for an empty content sequence, and otherwise
\* the text of the first content segment, unmodified, later segments
\* ignored.  A body that is not one JSON value is malformed.
C21_OutcomeOrder ==
    (HandlerRan("commit") /\ HTTPCalled) => OutcomeInOrder(IsOneJSONValue)

\* What holds of the decoder in use: the same order, with the parse error
\* only for a body that does not start with a JSON value.
C21_OutcomeOrderOfFirstValue ==
    (HandlerRan("commit") /\ HTTPCalled) => OutcomeInOrder(StartsWithJSONValue)

(***************************************************************************)
(* SaveConfig over a prior configuration that does not load                *)
(***************************************************************************)
LoadSites == {"LoadConfig.home", "LoadConfig.read", "LoadConfig.parse"}

\* the steps of SaveConfig after the validation all succeed
WriteSucceeds == ~last.fs.homeErr2 /\ ~last.fs.mkdirErr /\ last.fs.write = "ok"

\* C22: SaveConfig treats every failure to load the prior configuration
\* (missing, unreadable or malformed file) as no prior configuration: with
\* a non-empty apiKey argument, and the directory and file written without
\* failure, it succeeds and the file holds the record (apiKey, model), the
\* default model standing in for an empty model argument, whatever the file
\* held before; SaveConfig never fails with an error of the load.
C22_LoadFailureIsNoPrior ==
    SaveInvoked =>
      /\ last.err.site \notin LoadSites
      /\ (~Loaded.ok /\ ArgKey # Empty) =>
           /\ last.err.site \in {"nil", "SaveConfig.home", "SaveConfig.mkdir",
                                 "SaveConfig.write"}
           /\ last.err = NoError <=> WriteSucceeds
           /\ WriteSucceeds =>
                /\ file = MarshalIndent(Config(ArgKey, IF ArgModel # Empty THEN ArgModel
                                                       ELSE DefaultModel))
                /\ Printed(last.events, PrintSuccess(<<"Configuration saved successfully">>))
                /\ last.exit = 0

\* C22 witness: a save with a key and an empty model over a malformed file
\* succeeded and replaced the file by the key and the default model.
C22_Witness ==
    /\ SaveInvoked /\ last.err = NoError
    /\ last.before = Malformed /\ ~Loaded.ok
    /\ ArgKey = Key4 /\ ArgModel = Empty
    /\ file = MarshalIndent(Config(Key4, DefaultModel))

\* C22 witness of the other load failures: the file was there but could not
\* be read, and the save went through all the same.
C22_WitnessUnreadable ==
    /\ SaveInvoked /\ last.err = NoError
    /\ last.before.kind = "json" /\ last.fs.readErr
    /\ file = MarshalIndent(Config(ArgKey, ArgModel))

(***************************************************************************)
(* Two config invocations at the same time.  Each is a process of its own  *)
(* and nothing orders them: one step is SaveConfig's LoadConfig (line      *)
(* 170), the other is the rest of SaveConfig, with the write of line 213,  *)
(* and main's report.  seen counts the invocations that had finished when  *)
(* this one read the file, order is its place among the finished ones.     *)
(***************************************************************************)
RaceFiles == {NoFile, JSON({"api_key", "model"}, Key11, AvailableModels[1])}

RaceArgvs == {Argv("config", TRUE, k, m, "ok") : k \in KeyFlags, m \in ModelFlags}

RaceEnvs ==
    {FSQuiet, [FSQuiet EXCEPT !.readErr = TRUE], [FSQuiet EXCEPT !.write = "denied"],
     [FSQuiet EXCEPT !.write = "truncated"]}

Finished == {p \in Procs : running[p].pc = "done"}

RaceLoad(p) ==
    /\ running[p].pc = "idle"
    /\ \E argv \in RaceArgvs, fs \in RaceEnvs :
         running' = [running EXCEPT ![p] =
                       [pc |-> "loaded", argv |-> argv, fs |-> fs, before |-> file,
                        existing |-> LoadConfig(file, fs), seen |-> Cardinality(Finished),
                        order |-> 0, err |-> NoError]]
    /\ UNCHANGED <<file, last>>

RaceWrite(p) ==
    /\ running[p].pc = "loaded"
    /\ LET me == running[p]
           saved == SaveAfterLoad(file, me.existing, ApiKeyFlagValue(me.argv),
                                  ModelFlagValue(me.argv), me.fs)
           r == Finish(saved.file, saved)
       IN  /\ file' = r.file
           /\ last' = [Ran("config", me.argv, me.fs, GitQuiet, HTTPQuiet, DevVersion, r)
                         EXCEPT !.before = me.before]
           /\ running' = [running EXCEPT ![p].pc = "done", ![p].err = r.err,
                                         ![p].order = Cardinality(Finished) + 1]

InitRace == file \in RaceFiles /\ last = NoRun /\ running = NoneRunning

NextRace == \E p \in Procs : RaceLoad(p) \/ RaceWrite(p)

SpecRace == InitRace /\ [][NextRace]_vars

\* An invocation on its own is the two steps one after the other.
SaveIsLoadThenWrite ==
    SaveInvoked =>
      SaveConfig(last.before, ArgKey, ArgModel, last.fs)
        = SaveAfterLoad(last.before, Loaded, ArgKey, ArgModel, last.fs)

\* both invocations read the file before either wrote it, p wrote first
\* and q last, and both writes succeeded
BothReadThenWrote(p, q) ==
    /\ Finished = Procs
    /\ running[p].seen = 0 /\ running[q].seen = 0
    /\ running[p].order = 1 /\ running[q].order = 2
    /\ running[p].err = NoError /\ running[q].err = NoError

\* what an invocation asked to change
SetsKey(p) == ApiKeyFlagValue(running[p].argv)

SetsModel(p) == ModelFlagValue(running[p].argv)

\* C23: two concurrent config invocations are not atomic: when both read
\* the file before either writes it, the file in the end is the last
\* writer's merge of its own arguments with what the file held at the
\* start, so that a key or a model only the first writer set is not in it
\* although the first writer reported success.
C23_LastWriterWins ==
    \A p, q \in Procs :
      BothReadThenWrote(p, q) =>
        LET start == running[q].existing
        IN  /\ running[p].before = running[q].before
            /\ file = MarshalIndent(MergeConfig(start, SetsKey(q), SetsModel(q)))
            /\ (SetsKey(q) = Empty /\ start.ok) => Stored(file).ApiKey = start.cfg.ApiKey
            /\ (SetsModel(q) = Empty /\ start.ok) => Stored(file).Model = start.cfg.Model

\* C23 witness: over a stored (Key11, claude-opus-4-0), one invocation set
\* only the key Key4 and the other only the model model-a (with an empty
\* key), both read first and both reported success: the file holds Key11
\* and model-a, and Key4 is gone.
C23_Witness ==
    \E p, q \in Procs :
      /\ BothReadThenWrote(p, q)
      /\ running[p].before = JSON({"api_key", "model"}, Key11, AvailableModels[1])
      /\ SetsKey(p) = Key4 /\ running[p].argv.model = Given(Empty)
      /\ SetsKey(q) = Empty /\ SetsModel(q) = ModelA
      /\ Stored(file) = Config(Key11, ModelA)

(***************************************************************************)
(* The stored model                                                        *)
(***************************************************************************)
\* C24 as claimed: the model stored in the configuration is always one of
\* the supported model identifiers; starting from no file, no sequence of
\* config invocations persists a model outside the list.
C24_StoredModelSupported ==
    file.kind = "json" => \E i \in 1..Len(AvailableModels) : Stored(file).Model = AvailableModels[i]

(***************************************************************************)
(* The displayed command                                                   *)
(***************************************************************************)
\* the text the last commit reported as its command, without the codes
ReportedCommand == StripANSI(last.events[Len(last.events)].msg)

\* C25 as claimed: the suggestion embedded in the displayed command is
\* always a single-line, trimmed string: whatever text the remote response
\* carries, the reported git commit -m "..." has no line break in it.
C25_SuggestionSingleLine ==
    (HandlerRan("commit") /\ last.err = NoError)
    => /\ ReportedCommand[1] = "git commit -m \""
       /\ ~ContainsPiece(ReportedCommand, "\n")
       /\ ~ContainsPiece(ReportedCommand, "\r")

\* What holds of it: the suggestion has no white space at either end.
C25_SuggestionTrimmed ==
    (HandlerRan("commit") /\ last.err = NoError)
    => LET c == ReportedCommand
       IN  /\ c[1] = "git commit -m \"" /\ c[Len(c)] = "\""
           /\ Len(c) > 2 => (c[2] \notin WhiteSpace /\ c[Len(c) - 1] \notin WhiteSpace)

(***************************************************************************)
(* What changes the configuration file                                     *)
(***************************************************************************)
ReadOnlyCommands == {"view", "models", "commit", "help", "version"}

\* C26 as claimed: view, models, commit, help and version never create or
\* modify the configuration file, whether they succeed or fail, and only a
\* successful config save changes it.
C26_OnlySuccessfulSaveChanges ==
    /\ last.cmd \in ReadOnlyCommands => file = last.before
    /\ (Invoked /\ file # last.before) => (SaveInvoked /\ last.err = NoError)

\* What holds of it: the five commands, and an unknown command, leave the
\* file as it was, and a file that changed was written by a config save
\* that got as far as its WriteFile.
C26_ReadersLeaveFile ==
    /\ last.cmd \in ReadOnlyCommands \cup {"unknown"} =>
         (file = last.before /\ Select(last.events, "WriteFile") = <<>>
          /\ Select(last.events, "MkdirAll") = <<>>)
    /\ (Invoked /\ file # last.before) =>
         (SaveInvoked /\ Select(last.events, "WriteFile") # <<>>)

\* C27 as claimed: when SaveConfig fails for any reason (validation, home
\* directory, directory creation or file write), the stored configuration
\* is exactly as it was before the call and no success message is reported.
C27_FailedSaveLeavesFile ==
    (SaveInvoked /\ last.err # NoError)
    => /\ file = last.before
       /\ ~Printed(last.events, PrintSuccess(<<"Configuration saved successfully">>))
       /\ last.exit = 1

\* What holds of it: a save that fails before its WriteFile leaves the file
\* as it was, and no failed save reports success.
C27_FailureBeforeWriteLeavesFile ==
    (SaveInvoked /\ last.err # NoError)
    => /\ last.err.site \in {"SaveConfig.validate", "SaveConfig.home", "SaveConfig.mkdir"}
         => (file = last.before /\ Select(last.events, "WriteFile") = <<>>)
       /\ last.err.site = "SaveConfig.write" => file \in {last.before, Malformed}
       /\ \A i \in 1..Len(last.events) :
            last.events[i].ev = "print" => last.events[i].kind = "PrintError"
       /\ last.exit = 1

(***************************************************************************)
(* What the outputs tell about the API key.  Two keys are compared by      *)
(* running the last invocation again with one key put in place of the      *)
(* other, in the command line or in the file it finds.                     *)
(***************************************************************************)
Key4b == <<"a", "b", "c", "d">>

Key8 == <<"s", "k", "-", "t", "1", "2", "3", "4">>

KeyPool == {Key4, Key4b, Key8, Key11, Key11b}

\* the two keys are both of at most 8 characters, or both longer and equal
\* in their first 4 and in their last 4 characters
SameMask(k1, k2) ==
    \/ Len(k1) <= 8 /\ Len(k2) <= 8
    \/ /\ Len(k1) > 8 /\ Len(k2) > 8
       /\ SubSeq(k1, 1, 4) = SubSeq(k2, 1, 4)
       /\ SubSeq(k1, Len(k1) - 3, Len(k1)) = SubSeq(k2, Len(k2) - 3, Len(k2))

WithStoredKey(f, k) == [f EXCEPT !.api_key = k]

WithArgKey(l, k) == [l EXCEPT !.argv.apiKey.val = k]

\* s occurs in msg as a run of consecutive pieces
Infix(s, msg) ==
    \E i \in 0..(Len(msg) - Len(s)) : SubSeq(msg, i + 1, i + Len(s)) = s

KeysAtHand == {ArgKey, Stored(last.before).ApiKey, Stored(file).ApiKey} \ {Empty}

\* C28: no command reports the API key in full: what config and view show
\* of a key is MaskAPIKey of it, so that the outputs of an invocation are
\* the same for any two keys of at most 8 characters, and for any two
\* longer keys that agree on their first 4 and last 4 characters, be the
\* key the one given on the command line or the one stored in the file.
C28_OutputsHideKey ==
    Invoked =>
      /\ \A k \in KeysAtHand : \A i \in 1..Len(last.events) :
           last.events[i].ev = "print" => ~Infix(k, last.events[i].msg)
      /\ \A k \in KeyPool :
           (last.argv.apiKey.set /\ ArgKey # Empty /\ SameMask(ArgKey, k)) =>
             LET other == Dispatch(last.before, WithArgKey(last, k))
             IN  Prints(other.events) = Prints(last.events) /\ other.exit = last.exit
      /\ \A k \in KeyPool :
           ("api_key" \in last.before.has /\ Stored(last.before).ApiKey # Empty
              /\ SameMask(Stored(last.before).ApiKey, k)) =>
             LET other == Dispatch(WithStoredKey(last.before, k), last)
             IN  Prints(other.events) = Prints(last.events) /\ other.exit = last.exit
      /\ \A k \in KeyPool :
           (last.cmd = "view" /\ "api_key" \in last.before.has /\ Len(k) <= 8
              /\ Stored(last.before).ApiKey = Empty) =>
             Prints(Dispatch(WithStoredKey(last.before, k), last).events)
               = Prints(last.events)

\* C28 witness: a save of the key sk-test1234 reported sk-t****1234, which
\* is what the save of sk-tXYZ1234 reports, while the two saves leave
\* different files.
C28_Witness ==
    /\ SaveInvoked /\ last.err = NoError /\ ArgKey = Key11
    /\ Printed(last.events, PrintPlain(<<Bold, "API Key: ", Reset, "s", "k", "-", "t",
                                         "*", "*", "*", "*", "1", "2", "3", "4">>))
    /\ Prints(Dispatch(last.before, WithArgKey(last, Key11b)).events) = Prints(last.events)
    /\ Dispatch(last.before, WithArgKey(last, Key11b)).file # file

\* C28 witness of view: the stored key sk-1 was shown as ********, as the
\* stored key abcd is.
C28_WitnessView ==
    /\ HandlerRan("view") /\ last.err = NoError
    /\ Stored(last.before).ApiKey = Key4
    /\ Printed(last.events, PrintPlain(<<Bold, "API Key: ", Reset>> \o EightStars))
    /\ Prints(Dispatch(WithStoredKey(last.before, Key4b), last).events) = Prints(last.events)

(***************************************************************************)
(* What a commit reports                                                   *)
(***************************************************************************)
\* the run got past the empty-diff check of line 400
PastEmptyDiffCheck ==
    /\ HandlerRan("commit") /\ Loaded.ok
    /\ ~last.git.diffErr /\ ~last.git.filesErr
    /\ TrimSpace(last.git.diff) # Empty

ReportsCommand ==
    \E i \in 1..Len(last.events) :
        /\ last.events[i].ev = "print"
        /\ \E j \in 1..Len(last.events[i].msg) :
             last.events[i].msg[j] \in {"git commit -m \"", "git commit -m "}

\* C29: a commit run that ends in an error reports neither the success
\* notice nor a git commit command; the progress notice is reported exactly
\* in the runs that get past the empty-diff check, which are exactly the
\* runs that issue the remote call, once and before that call.
C29_CommitReports ==
    last.cmd = "commit" =>
      /\ last.exit # 0 => (~Printed(last.events, Generated) /\ ~ReportsCommand)
      /\ last.err # NoError => last.exit # 0
      /\ Printed(last.events, Progress) <=> PastEmptyDiffCheck
      /\ PastEmptyDiffCheck <=> HTTPCalled
      /\ \A i \in Indices(last.events, "http"), j \in 1..Len(last.events) :
           last.events[j] = Progress => j < i
      /\ Cardinality({j \in 1..Len(last.events) : last.events[j] = Progress}) <= 1

\* C29 witness: a commit whose response could not be parsed reported the
\* progress notice, then made the call, and reported the error and nothing
\* else.
C29_Witness ==
    /\ HandlerRan("commit") /\ last.err.site = "Anthropic.parse"
    /\ Printed(last.events, Progress) /\ HTTPCalled
    /\ ~Printed(last.events, Generated) /\ ~ReportsCommand
    /\ Len(Prints(last.events)) = 2

\* C29 witness of the other side: a commit stopped by the empty-diff check
\* reported no progress notice.
C29_WitnessNoProgress ==
    /\ HandlerRan("commit") /\ last.err = NoStagedChanges
    /\ ~Printed(last.events, Progress) /\ ~HTTPCalled

(***************************************************************************)
(* One invocation step by step.  The steps of an invocation are its        *)
(* events in program order: each collaborator call and each line printed   *)
(* is one step, and the end of the process is the last.  The invocation    *)
(* under way is last, its events so far are last.events, and running[1]    *)
(* says whether it is still under way.  The file changes at the step that  *)
(* is the WriteFile call.                                                  *)
(***************************************************************************)
\* the command lines and collaborator answers of an invocation that finds
\* the file f; an answer is drawn only for a call the invocation can make
Invocations(f) ==
    {i \in [cmd : {"config"}, argv : ConfigArgvs, fs : SaveEnvs, git : {GitQuiet},
            http : {HTTPQuiet}, version : {DevVersion}] :
        (i.argv.more /\ i.argv.parse = "ok") \/ i.fs = FSQuiet}
    \cup {i \in [cmd : {"view", "models"}, argv : PlainArgvs("view") \cup PlainArgvs("models"),
                 fs : LoadEnvs, git : {GitQuiet}, http : {HTTPQuiet}, version : {DevVersion}] :
            /\ i.argv.verb = i.cmd
            /\ i.argv.parse = "ok" \/ i.fs = FSQuiet}
    \cup {i \in [cmd : {"commit"}, argv : PlainArgvs("commit"), fs : LoadEnvs,
                 git : GitAnswers, http : HTTPOutcomes, version : {DevVersion}] :
            /\ i.argv.parse = "ok" \/ i.fs = FSQuiet
            /\ GitAsked(f, i.argv, i.fs) \/ i.git = GitQuiet
            /\ HTTPAsked(f, i.argv, i.fs, i.git) \/ i.http = HTTPQuiet}
    \cup [cmd : {"help"}, argv : PlainArgvs("help") \cup {Bare(""), Bare("--help"), Bare("-h")},
          fs : {FSQuiet}, git : {GitQuiet}, http : {HTTPQuiet}, version : {DevVersion}]
    \cup [cmd : {"version"}, argv : {Bare("--version"), Bare("-v")},
          fs : {FSQuiet}, git : {GitQuiet}, http : {HTTPQuiet}, version : Versions]
    \cup [cmd : {"unknown"}, argv : {Bare("status"), Bare("--verbose")},
          fs : {FSQuiet}, git : {GitQuiet}, http : {HTTPQuiet}, version : {DevVersion}]

UnderWay == running[1].pc = "running"

\* everything the invocation under way will do: it depends on the file it
\* found and on its own command line and collaborator answers
Plan == Dispatch(last.before, last)

StepStart ==
    /\ running = NoneRunning
    /\ \E i \in Invocations(file) :
         last' = [cmd |-> i.cmd, argv |-> i.argv, fs |-> i.fs, git |-> i.git,
                  http |-> i.http, version |-> i.version, before |-> file,
                  err |-> NoError, events |-> <<>>, exit |-> 0]
    /\ running' = [running EXCEPT ![1].pc = "running"]
    /\ UNCHANGED file

StepEvent ==
    /\ UnderWay
    /\ Len(last.events) < Len(Plan.events)
    /\ LET e == Plan.events[Len(last.events) + 1]
       IN  /\ last' = [last EXCEPT !.events = Append(@, e)]
           /\ file' = IF e.ev = "WriteFile" THEN Plan.file ELSE file
    /\ UNCHANGED running

StepExit ==
    /\ UnderWay
    /\ Len(last.events) = Len(Plan.events)
    /\ last' = [last EXCEPT !.err = Plan.err, !.exit = Plan.exit]
    /\ running' = NoneRunning
    /\ UNCHANGED file

NextSteps == StepStart \/ StepEvent \/ StepExit

\* every call returns and every step is taken
SpecSteps ==
    /\ Init
    /\ [][NextSteps]_vars
    /\ WF_vars(StepEvent)
    /\ WF_vars(StepExit)

Ended == Invoked /\ ~UnderWay

\* what an invocation has done is the beginning of what the file it found
\* and its own inputs determine, and once ended it has one outcome: status
\* 0, or a non-zero status after a report of the error
OneOutcome ==
    /\ Invoked =>
         /\ Len(last.events) <= Len(Plan.events)
         /\ last.events = SubSeq(Plan.events, 1, Len(last.events))
    /\ Ended =>
         LET ev == last.events
             n == Len(ev)
         IN  /\ ev = Plan.events /\ file = Plan.file
             /\ last.exit \in {0, 1, 2}
             /\ last.err # NoError => last.exit # 0
             /\ \A i \in Indices(ev, "os.Exit") : i = n /\ ev[i].code = last.exit
             /\ last.exit # 0 =>
                  /\ n >= 2 /\ ev[n] = EvExit(last.exit)
                  /\ ev[n - 1].ev = "stderr"
                     \/ (ev[n - 1].ev = "print" /\ ev[n - 1].kind = "PrintError")
             /\ (last.exit = 0 /\ Indices(ev, "os.Exit") = {}) =>
                  \A i \in 1..n : ev[i].ev = "print" /\ ev[i].kind = "PrintError"
                                    => ev[i] = CloseReport

\* C30: with every collaborator call returning, every invocation of every
\* command ends, in one outcome: exit status 0, or a non-zero status with
\* the error reported; and what an invocation does depends on the
\* configuration file it finds and on nothing else of earlier invocations.
C30_Terminates ==
    /\ []OneOutcome
    /\ UnderWay ~> ~UnderWay

\* C30 witness: a commit ended with status 1 after all its steps, from the
\* reading of the configuration to the report of the remote error.
C30_Witness ==
    /\ Ended /\ last.cmd = "commit" /\ last.err.site = "Anthropic.status"
    /\ last.exit = 1 /\ Len(last.events) >= 9
    /\ last.events = Plan.events
====
